---- MODULE Spec2Model ----
(***************************************************************************)
(* A model of generate_epg.py, the IRIB EPG generator: the three source    *)
(* parsers / emitters (sepehr_programmes_to_xmltv, parse_radio_quran_html, *)
(* the box normalisation of fetch_radio_quran_json, radio_quran_to_xmltv), *)
(* the datetime formatting they share, and the orchestration in main.      *)
(*                                                                         *)
(* Representation.                                                         *)
(*  - A Python str is a sequence of one-character strings.                 *)
(*  - A Python value read from a dict is a record [k, s, hi, lo]: k is the *)
(*    kind ("missing" = the key is absent, "none", "str", "int"); s is the *)
(*    text of a str; an int v is kept as v = hi * 1000 + lo, 0 <= lo < 1000*)
(*    so that millisecond timestamps of the present day keep their width.  *)
(*  - A formatted datetime ("%Y%m%d%H%M%S %z") is the record of its fields;*)
(*    the calendar date YYYYMMDD is kept as the ordinal of the local day   *)
(*    (days since 1970-01-01).                                             *)
(*  - The tree is the sequence of the root's children; an element is       *)
(*    [tag, attrib, children/text] with attrib a function on the attribute *)
(*    names that are set.                                                  *)
(***************************************************************************)
EXTENDS Integers, Sequences, FiniteSets, TLC

VARIABLES
    pc,               \* position of the program / of the function under study
    tv,               \* children of the <tv> root element, in document order
    call,             \* arguments of the last emitter / parser call
    ret,              \* outcome of the last emitter / parser call
    session,          \* main: TRUE iff create_sepehr_session returned a session
    sepehr_ok,        \* main: sepehr_ok
    radio_ok,         \* main: radio_ok
    total_programmes, \* main: total_programmes
    html,             \* main: what fetch_radio_quran_html returned
    rq_programmes,    \* main: rq_programmes
    fetched,          \* main: the sources consulted so far, in order
    written,          \* main: TRUE iff OUTPUT_FILE was written
    exit_status,      \* main: process exit status (-1 while running)
    attempt,          \* _cffi_fetch: attempts made so far (the loop variable)
    responses         \* _cffi_fetch: what each attempt met, in order

vars == <<pc, tv, call, ret, session, sepehr_ok, radio_ok, total_programmes,
          html, rq_programmes, fetched, written, exit_status, attempt,
          responses>>

(***************************************************************************)
(* Bounds of the model.                                                    *)
(***************************************************************************)
MaxSepehrItems == 2     \* longest Sepehr item list drawn
MaxRadioItems == 3      \* longest radio programme list drawn
MaxBlocks == 3          \* most programme blocks in a drawn HTML page
MaxBoxes == 2           \* most boxes in a drawn secondary-feed container
MaxRetries == 3         \* largest max_retries drawn (the default of the code)

(***************************************************************************)
(* Python values and str helpers.                                          *)
(***************************************************************************)
Missing == [k |-> "missing", s |-> <<>>, hi |-> 0, lo |-> 0]
PyNone == [k |-> "none", s |-> <<>>, hi |-> 0, lo |-> 0]
PyStr(chars) == [k |-> "str", s |-> chars, hi |-> 0, lo |-> 0]
PyInt(n) == [k |-> "int", s |-> <<>>, hi |-> n \div 1000, lo |-> n % 1000]
PyMs(sec, frac) == [k |-> "int", s |-> <<>>, hi |-> sec, lo |-> frac]

\* dict.get(key, default): the default only replaces an absent key.
Get(v, default) == IF v.k = "missing" THEN default ELSE v

\* Python truthiness of None, str and int.
Truthy(v) ==
    CASE v.k = "str" -> v.s # <<>>
      [] v.k = "int" -> v.hi # 0 \/ v.lo # 0
      [] OTHER -> FALSE

\* a or b
PyOr(a, b) == IF Truthy(a) THEN a ELSE b

\* v > 0 for an int v
IsPositive(v) == v.hi > 0 \/ (v.hi = 0 /\ v.lo > 0)

\* the value of a small int
IntVal(v) == v.hi * 1000 + v.lo

Whitespace == {" ", "\n"}

RECURSIVE LStrip(_)
LStrip(s) ==
    IF s # <<>> /\ Head(s) \in Whitespace THEN LStrip(Tail(s)) ELSE s

RECURSIVE RStrip(_)
RStrip(s) ==
    IF s # <<>> /\ s[Len(s)] \in Whitespace
    THEN RStrip(SubSeq(s, 1, Len(s) - 1))
    ELSE s

\* str.strip()
Strip(s) == RStrip(LStrip(s))

(***************************************************************************)
(* IRAN_TZ and the datetime formatting.                                    *)
(***************************************************************************)
StdOffset == 12600               \* +03:30 in seconds
DstOffset == 16200               \* +04:30 in seconds
DstStartUtc == 1616358600        \* 2021-03-21T20:30:00Z, clocks go 00:00 -> 01:00
DstEndUtc == 1632252600          \* 2021-09-21T19:30:00Z, clocks go 00:00 -> 23:00
SecondsPerDay == 86400

\* ZoneInfo("Asia/Tehran").utcoffset at a UTC instant (seconds since epoch).
\* Of the zone's daylight-saving periods the one of 2021 is modelled.
UtcOffsetAt(sec) ==
    IF DstStartUtc <= sec /\ sec < DstEndUtc THEN DstOffset ELSE StdOffset

\* ZoneInfo("Asia/Tehran").utcoffset of a wall-clock time (fold = 0), given as
\* seconds since 1970-01-01T00:00 local.
UtcOffsetOfWall(wall) ==
    IF DstStartUtc + DstOffset <= wall /\ wall < DstEndUtc + DstOffset
    THEN DstOffset ELSE StdOffset

\* strftime("%Y%m%d%H%M%S %z") of the wall-clock time `wall` at offset `off`.
Strftime(wall, off) ==
    [ymd |-> wall \div SecondsPerDay,
     hh |-> (wall % SecondsPerDay) \div 3600,
     mm |-> (wall % 3600) \div 60,
     ss |-> wall % 60,
     zsign |-> IF off < 0 THEN "-" ELSE "+",
     zhh |-> (IF off < 0 THEN -off ELSE off) \div 3600,
     zmm |-> ((IF off < 0 THEN -off ELSE off) % 3600) \div 60]

\* ms_to_xmltv(ms): ms / 1000 seconds since the epoch, in IRAN_TZ; the
\* fraction of a second is not printed.
ms_to_xmltv(ms) ==
    LET sec == ms.hi
        off == UtcOffsetAt(sec)
    IN Strftime(sec + off, off)

(***************************************************************************)
(* Elements of the XMLTV tree.                                             *)
(***************************************************************************)
\* ET.SubElement(prog_el, "title", lang="fa").text = title
TitleEl(title) == [tag |-> "title", attrib |-> [lang |-> "fa"], text |-> title]

\* ET.SubElement(prog_el, "desc", lang="fa").text = desc
DescEl(desc) == [tag |-> "desc", attrib |-> [lang |-> "fa"], text |-> desc]

\* ET.SubElement(prog_el, "icon", src=image)
IconEl(image) == [tag |-> "icon", attrib |-> [src |-> image], text |-> <<>>]

\* ET.SubElement(ch_el, "display-name").text = display_name
DisplayNameEl(name) ==
    [tag |-> "display-name", attrib |-> <<>>, text |-> name]

\* attrs = {"start": ..., "channel": tvg_id}, then attrs["stop"] when a stop
\* was computed; stop is a sequence of zero or one formatted datetimes.
Attrs(start, tvg_id, stop) ==
    IF stop = <<>>
    THEN [start |-> start, channel |-> tvg_id]
    ELSE [start |-> start, channel |-> tvg_id, stop |-> stop[1]]

\* The programme element with its children in the order they are appended:
\* title, then desc if the description is non-empty, then icon if the image
\* is truthy.
ProgrammeEl(attrs, title, desc, image) ==
    [tag |-> "programme",
     attrib |-> attrs,
     children |-> <<TitleEl(title)>>
                  \o (IF desc # <<>> THEN <<DescEl(desc)>> ELSE <<>>)
                  \o (IF Truthy(image) THEN <<IconEl(image.s)>> ELSE <<>>)]

\* The channel element main registers: display-name and icon children.
ChannelEl(tvg_id, display_name, logo) ==
    [tag |-> "channel",
     attrib |-> [id |-> tvg_id],
     children |-> <<DisplayNameEl(display_name), IconEl(logo)>>]

(***************************************************************************)
(* sepehr_programmes_to_xmltv                                              *)
(***************************************************************************)
\* AddMinutesMs without the factor 60: the duration is added as seconds.
AddMinutesMs_Seconds(start_ms, duration_min) ==
    [start_ms EXCEPT !.hi = start_ms.hi + IntVal(duration_min)]

\* start_ms + duration_min * 60 * 1000
AddMinutesMs(start_ms, duration_min) ==
    [start_ms EXCEPT !.hi = start_ms.hi + IntVal(duration_min) * 60]

\* (prog.get("descFull") or prog.get("descSummary") or "").strip()
SepehrDesc(prog) ==
    Strip(PyOr(PyOr(Get(prog.descFull, PyNone), Get(prog.descSummary, PyNone)),
               PyStr(<<>>)).s)

\* SepehrStop without the test duration_min > 0: any truthy duration, a
\* negative one included, gives a stop.
SepehrStop_AnyTruthy(start_ms, duration_min) ==
    IF Truthy(duration_min)
    THEN <<ms_to_xmltv(AddMinutesMs(start_ms, duration_min))>>
    ELSE <<>>

\* The stop attribute of one item: present only for a truthy, positive duration.
SepehrStop(start_ms, duration_min) ==
    IF Truthy(duration_min) /\ IsPositive(duration_min)
    THEN <<ms_to_xmltv(AddMinutesMs(start_ms, duration_min))>>
    ELSE <<>>

\* The element appended for one item that passed the start / title check.
SepehrEl(prog, tvg_id) ==
    LET start_ms == Get(prog.start, PyNone)
        title == Strip(Get(prog.title, PyStr(<<>>)).s)
        duration_min == Get(prog.duration, PyInt(0))
    IN ProgrammeEl(Attrs(ms_to_xmltv(start_ms), tvg_id,
                         SepehrStop(start_ms, duration_min)),
                   title, SepehrDesc(prog), Get(prog.imageUrl, PyNone))

\* prog.get("title", "").strip() raises AttributeError when the value is not
\* a str (a JSON null): nothing catches it inside the function.
SepehrTitleRaises(prog) == Get(prog.title, PyStr(<<>>)).k # "str"

\* if not start_ms or not title: continue
SepehrSkips(prog) ==
    \/ ~Truthy(Get(prog.start, PyNone))
    \/ Strip(Get(prog.title, PyStr(<<>>)).s) = <<>>

\* The loop over programmes from item i on: elements are appended to the tree
\* as the loop goes, so a raise leaves the earlier ones in it.
RECURSIVE SepehrLoop(_, _, _, _, _)
SepehrLoop(tree, programmes, tvg_id, i, count) ==
    IF i > Len(programmes)
    THEN [tv |-> tree, count |-> count, raised |-> FALSE]
    ELSE IF SepehrTitleRaises(programmes[i])
    THEN [tv |-> tree, count |-> count, raised |-> TRUE]
    ELSE IF SepehrSkips(programmes[i])
    THEN SepehrLoop(tree, programmes, tvg_id, i + 1, count)
    ELSE SepehrLoop(Append(tree, SepehrEl(programmes[i], tvg_id)),
                    programmes, tvg_id, i + 1, count + 1)

\* sepehr_programmes_to_xmltv building the elements in a tree of its own:
\* what the caller's tree held is not in the result.
sepehr_programmes_to_xmltv_FreshTree(tree, programmes, tvg_id) ==
    SepehrLoop(<<>>, programmes, tvg_id, 1, 0)

sepehr_programmes_to_xmltv(tree, programmes, tvg_id) ==
    SepehrLoop(tree, programmes, tvg_id, 1, 0)

(***************************************************************************)
(* Parsing of "H:M" time strings.                                          *)
(***************************************************************************)
Digits == <<"0", "1", "2", "3", "4", "5", "6", "7", "8", "9">>

IsDigit(c) == \E i \in 1..Len(Digits) : Digits[i] = c

DigitVal(c) == (CHOOSE i \in 1..Len(Digits) : Digits[i] = c) - 1

RECURSIVE DigitsVal(_)
DigitsVal(s) ==
    IF s = <<>> THEN 0
    ELSE DigitsVal(SubSeq(s, 1, Len(s) - 1)) * 10 + DigitVal(s[Len(s)])

\* int(s): surrounding whitespace and one sign are accepted, then at least
\* one digit and digits only; anything else is a ValueError (ok = FALSE).
PyIntParse(s) ==
    LET t == Strip(s)
        signed == t # <<>> /\ Head(t) \in {"+", "-"}
        body == IF signed THEN Tail(t) ELSE t
        ok == body # <<>> /\ \A i \in 1..Len(body) : IsDigit(body[i])
    IN [ok |-> ok,
        val |-> IF ~ok THEN 0
                ELSE IF signed /\ Head(t) = "-" THEN -DigitsVal(body)
                ELSE DigitsVal(body)]

\* s.split(":")
RECURSIVE SplitColon(_, _)
SplitColon(s, cur) ==
    IF s = <<>> THEN <<cur>>
    ELSE IF Head(s) = ":" THEN <<cur>> \o SplitColon(Tail(s), <<>>)
    ELSE SplitColon(Tail(s), Append(cur, Head(s)))

Split(s) == SplitColon(s, <<>>)

(***************************************************************************)
(* radio_quran_to_xmltv                                                    *)
(***************************************************************************)
\* prog.get("title", "").strip() raises AttributeError on a non-str title.
RadioTitleRaises(prog) == Get(prog.title, PyStr(<<>>)).k # "str"

\* h, m = time_str.split(":"); hour, minute = int(h), int(m): ok is FALSE when
\* the ValueError / AttributeError that the try block catches is raised (the
\* value is no str, there are not exactly two parts, a part is no integer).
RadioParseTime(prog) ==
    LET time_str == Get(prog.time, PyStr(<<>>))
        parts == IF time_str.k = "str" THEN Split(time_str.s) ELSE <<>>
        two == Len(parts) = 2
        h == IF two THEN PyIntParse(parts[1]) ELSE [ok |-> FALSE, val |-> 0]
        m == IF two THEN PyIntParse(parts[2]) ELSE [ok |-> FALSE, val |-> 0]
    IN [ok |-> two /\ h.ok /\ m.ok, hour |-> h.val, minute |-> m.val]

\* date.replace(hour=hour, minute=minute, ...) raises ValueError outside the
\* try block when hour is not in 0..23 or minute not in 0..59.
ReplaceRaises(hour, minute) ==
    hour < 0 \/ hour > 23 \/ minute < 0 \/ minute > 59

\* date.replace(hour=hour, minute=minute, second=0, microsecond=0): the
\* wall-clock time in seconds since 1970-01-01T00:00 local; date is the
\* ordinal of the anchor day.
Replace(date, hour, minute) ==
    date * SecondsPerDay + hour * 3600 + minute * 60

\* dt.strftime("%Y%m%d%H%M%S %z") of an aware wall-clock datetime in IRAN_TZ.
FormatWall(wall) == Strftime(wall, UtcOffsetOfWall(wall))

\* The first loop: entries (start_dt, title, desc, duration, image) of the
\* records that survive; raised when a record makes it raise.
RECURSIVE RadioEntries(_, _, _, _)
RadioEntries(programmes, date, i, entries) ==
    IF i > Len(programmes)
    THEN [entries |-> entries, raised |-> FALSE]
    ELSE LET prog == programmes[i]
             t == RadioParseTime(prog)
         IN IF RadioTitleRaises(prog)
            THEN [entries |-> entries, raised |-> TRUE]
            ELSE IF Strip(Get(prog.title, PyStr(<<>>)).s) = <<>> \/ ~t.ok
            THEN RadioEntries(programmes, date, i + 1, entries)
            ELSE IF ReplaceRaises(t.hour, t.minute)
            THEN [entries |-> entries, raised |-> TRUE]
            ELSE RadioEntries(programmes, date, i + 1,
                    Append(entries,
                        [start_dt |-> Replace(date, t.hour, t.minute),
                         title |-> Strip(Get(prog.title, PyStr(<<>>)).s),
                         desc |-> Get(prog.description, PyStr(<<>>)),
                         duration |-> Get(prog.duration, PyInt(0)),
                         image |-> Get(prog.image, PyStr(<<>>))]))

\* RadioStop with its two rules in the other order: the next entry's start
\* is taken when it is later, and the duration only otherwise.
RadioStop_NextStartFirst(entries, i) ==
    LET e == entries[i]
    IN IF i + 1 <= Len(entries) /\ entries[i + 1].start_dt > e.start_dt
       THEN <<FormatWall(entries[i + 1].start_dt)>>
       ELSE IF Truthy(e.duration) /\ IsPositive(e.duration)
       THEN <<FormatWall(e.start_dt + IntVal(e.duration) * 60)>>
       ELSE <<>>

\* RadioStop with >= for >: a next entry that starts at the same minute
\* gives a stop too.
RadioStop_NextNotEarlier(entries, i) ==
    LET e == entries[i]
    IN IF Truthy(e.duration) /\ IsPositive(e.duration)
       THEN <<FormatWall(e.start_dt + IntVal(e.duration) * 60)>>
       ELSE IF i + 1 <= Len(entries) /\ entries[i + 1].start_dt >= e.start_dt
       THEN <<FormatWall(entries[i + 1].start_dt)>>
       ELSE <<>>

\* The stop of entry i: start + duration when the duration is truthy and
\* positive; else the next entry's start when there is one and it is later;
\* else none.
RadioStop(entries, i) ==
    LET e == entries[i]
    IN IF Truthy(e.duration) /\ IsPositive(e.duration)
       THEN <<FormatWall(e.start_dt + IntVal(e.duration) * 60)>>
       ELSE IF i + 1 <= Len(entries) /\ entries[i + 1].start_dt > e.start_dt
       THEN <<FormatWall(entries[i + 1].start_dt)>>
       ELSE <<>>

\* The element of entry i.
RadioEl(entries, i, tvg_id) ==
    LET e == entries[i]
    IN ProgrammeEl(Attrs(FormatWall(e.start_dt), tvg_id, RadioStop(entries, i)),
                   e.title,
                   IF Truthy(e.desc) THEN e.desc.s ELSE <<>>,
                   e.image)

radio_quran_to_xmltv(tree, programmes, tvg_id, date) ==
    LET first == RadioEntries(programmes, date, 1, <<>>)
        entries == first.entries
    IN IF first.raised
       THEN [tv |-> tree, count |-> 0, raised |-> TRUE]
       ELSE [tv |-> tree \o [i \in 1..Len(entries) |->
                                RadioEl(entries, i, tvg_id)],
             count |-> Len(entries),
             raised |-> FALSE]

(***************************************************************************)
(* parse_radio_quran_html                                                  *)
(*                                                                         *)
(* The page is the sequence, in document order, of the pieces of markup    *)
(* that one of the five patterns matches, each with the text its group     *)
(* captures; markup that no pattern matches is left out. In a captured     *)
(* description a tag is one element of the text: "<br>" and "<br/>" for    *)
(* line breaks, "<b>" and "</b>" for any other tag.                        *)
(***************************************************************************)
Frag(kind, cap) == [kind |-> kind, cap |-> cap]

\* re.findall(pattern, html) for the pattern of the given kind.
FindAll(kind, page) ==
    LET hits == SelectSeq(page, LAMBDA f : f.kind = kind)
    IN [i \in 1..Len(hits) |-> hits[i].cap]

BrTags == {"<br>", "<br/>"}
OtherTags == {"<b>", "</b>"}

\* re.sub(r"<br\s*/?>", "\n", desc)
BrToNewline(desc) ==
    [i \in 1..Len(desc) |-> IF desc[i] \in BrTags THEN "\n" ELSE desc[i]]

\* re.sub(r"<[^>]+>", "", desc)
StripTags(desc) == SelectSeq(desc, LAMBDA c : c \notin BrTags \cup OtherTags)

\* The description of a block: strip, line breaks, remaining tags, strip.
CleanDesc(desc) == Strip(StripTags(BrToNewline(Strip(desc))))

Min2(a, b) == IF a <= b THEN a ELSE b

\* ZipLength that pairs the five sequences only when they agree in length,
\* and gives no record otherwise.
ZipLength_Strict(times, titles, descs, durations, images) ==
    IF {Len(titles), Len(descs), Len(durations), Len(images)} = {Len(times)}
    THEN Len(times) ELSE 0

\* n = min(len(times), len(titles), len(descs), len(durations), len(images))
ZipLength(times, titles, descs, durations, images) ==
    Min2(Len(times), Min2(Len(titles), Min2(Len(descs),
        Min2(Len(durations), Len(images)))))

parse_radio_quran_html(page) ==
    LET times == FindAll("time", page)
        titles == FindAll("title", page)
        descs == FindAll("desc", page)
        durations == FindAll("duration", page)
        images == FindAll("image", page)
        n == ZipLength(times, titles, descs, durations, images)
    IN [i \in 1..n |->
           [time |-> PyStr(Strip(times[i])),
            title |-> PyStr(Strip(titles[i])),
            description |-> PyStr(CleanDesc(descs[i])),
            duration |-> PyInt(DigitsVal(durations[i])),
            image |-> PyStr(images[i])]]

(***************************************************************************)
(* fetch_radio_quran_json: the normalisation of the boxes of the feed.     *)
(***************************************************************************)
Origin ==
    <<"h", "t", "t", "p", "s", ":", "/", "/", "r", "a", "d", "i", "o",
      "q", "u", "r", "a", "n", ".", "i", "r">>

\* image.startswith("http")
StartsWithHttp(s) == Len(s) >= 4 /\ SubSeq(s, 1, 4) = <<"h", "t", "t", "p">>

RECURSIVE NatToChars(_)
NatToChars(n) ==
    IF n < 10 THEN <<Digits[n + 1]>>
    ELSE NatToChars(n \div 10) \o <<Digits[(n % 10) + 1]>>

\* f"{n:02d}"
Format02d(n) ==
    IF n < 0 THEN <<"-">> \o NatToChars(-n)
    ELSE IF n < 10 THEN <<"0">> \o NatToChars(n)
    ELSE NatToChars(n)

\* What one box does to the loop: "raise" (an AttributeError or TypeError
\* nothing catches), "skip" (continue), or "keep".
BoxOutcome(box) ==
    LET title == Get(box.title, PyStr(<<>>))
        time_str == Get(box.time, PyStr(<<>>))
        parts == Split(Strip(time_str.s))
        image == Get(box.image, PyStr(<<>>))
    IN IF title.k # "str" THEN "raise"
       ELSE IF Strip(title.s) = <<>> THEN "skip"
       ELSE IF time_str.k # "str" THEN "raise"
       ELSE IF \A i \in 1..Len(time_str.s) : time_str.s[i] # ":" THEN "skip"
       ELSE IF ~(PyIntParse(parts[1]).ok /\ PyIntParse(parts[2]).ok) THEN "skip"
       ELSE IF Truthy(image) /\ image.k # "str" THEN "raise"
       ELSE "keep"

\* The record appended for a kept box.
BoxRecord(box) ==
    LET parts == Split(Strip(box.time.s))
        image == Get(box.image, PyStr(<<>>))
    IN [time |-> PyStr(Format02d(PyIntParse(parts[1]).val) \o <<":">>
                       \o Format02d(PyIntParse(parts[2]).val)),
        title |-> PyStr(Strip(box.title.s)),
        description |-> PyStr(<<>>),
        duration |-> PyInt(0),
        image |-> IF Truthy(image) /\ ~StartsWithHttp(image.s)
                  THEN PyStr(Origin \o image.s)
                  ELSE image]

RECURSIVE BoxLoop(_, _, _)
BoxLoop(boxes, i, programmes) ==
    IF i > Len(boxes)
    THEN [raised |-> FALSE, none |-> FALSE, value |-> programmes]
    ELSE IF BoxOutcome(boxes[i]) = "raise"
    THEN [raised |-> TRUE, none |-> FALSE, value |-> <<>>]
    ELSE IF BoxOutcome(boxes[i]) = "skip"
    THEN BoxLoop(boxes, i + 1, programmes)
    ELSE BoxLoop(boxes, i + 1, Append(programmes, BoxRecord(boxes[i])))

\* feed.raw is "none" when _cffi_fetch returned None, "invalid" when the text
\* is no JSON, "json" when it decoded to an object with the given Containers
\* (an absent key is the empty list).
fetch_radio_quran_json(feed) ==
    IF feed.raw # "json"
    THEN [raised |-> FALSE, none |-> TRUE, value |-> <<>>]
    ELSE IF feed.Containers = <<>>
    THEN [raised |-> FALSE, none |-> FALSE, value |-> <<>>]
    ELSE BoxLoop(feed.Containers[1].boxes, 1, <<>>)

(***************************************************************************)
(* Config: the channels. A URL is kept as a text of one element.           *)
(***************************************************************************)
\* SEPEHR_CHANNELS[46]
SepehrTvgId == "QuranTV.ir@SD"
SepehrDisplayName == "IRIB Quran"
SepehrLogo == <<"https://lb-cdn.sepehrtv.ir/img/channel/quarnlogo.png">>

\* RADIO_QURAN
RadioTvgId == "Radio Quran"
RadioDisplayName == "Radio Quran"
RadioLogo ==
    <<"https://logoyab.com/wp-content/uploads/2024/08/Radio-Quran-Logo.png">>

(***************************************************************************)
(* Inputs drawn for the emitters.                                          *)
(***************************************************************************)
\* All sequences over S of length at most n.
SeqsUpTo(S, n) == UNION {[1..k -> S] : k \in 0..n}

TvgIds == {SepehrTvgId, RadioTvgId}

\* The tree an emitter is handed: empty, holding a channel definition, or
\* holding a channel definition and a programme an earlier call appended.
Trees ==
    {<<>>,
     <<ChannelEl(SepehrTvgId, SepehrDisplayName, SepehrLogo)>>,
     <<ChannelEl(SepehrTvgId, SepehrDisplayName, SepehrLogo),
       ProgrammeEl([start |-> Strftime(StdOffset, StdOffset),
                    channel |-> SepehrTvgId],
                   <<"P">>, <<>>, PyNone)>>}

\* Millisecond timestamps: 2026-02-19 00:00:00.000 +0330, 00:30:00.500 the
\* same day, and 2021-03-21 23:30:00 +0330, half an hour before the clocks of
\* 2021 went forward.
T0 == PyMs(1771446600, 0)
T1 == PyMs(1771448400, 500)
TDst == PyMs(1616356800, 0)

SItem(start, title, duration, descFull, descSummary, imageUrl) ==
    [start |-> start, title |-> title, duration |-> duration,
     descFull |-> descFull, descSummary |-> descSummary, imageUrl |-> imageUrl]

SepehrTitles ==
    {Missing, PyNone, PyStr(<<>>), PyStr(<<" ">>), PyStr(<<"A">>),
     PyStr(<<" ", "B", " ">>)}

\* Items that vary start, title and duration.
SepehrCoreItems ==
    {SItem(st, ti, PyInt(30), Missing, Missing, Missing) :
        st \in {Missing, PyInt(0), T0, T1}, ti \in SepehrTitles}
    \cup
    {SItem(st, PyStr(<<"A">>), du, Missing, Missing, Missing) :
        st \in {T1, TDst}, du \in {Missing, PyNone, PyInt(0), PyInt(-5), PyInt(60)}}

\* Items that vary the two descriptions and the image.
SepehrDescItems ==
    {SItem(T0, PyStr(<<"A">>), PyInt(0), df, ds, Missing) :
        df \in {Missing, PyNone, PyStr(<<>>), PyStr(<<" ">>), PyStr(<<"F">>),
                PyStr(<<" ", "F">>)},
        ds \in {Missing, PyStr(<<>>), PyStr(<<"S">>), PyStr(<<"S", " ">>)}}
    \cup
    {SItem(T0, PyStr(<<"A">>), PyInt(0), Missing, Missing, im) :
        im \in {PyNone, PyStr(<<>>), PyStr(<<"u">>)}}

SepehrLists ==
    SeqsUpTo(SepehrCoreItems, MaxSepehrItems)
    \cup SeqsUpTo(SepehrDescItems, MaxSepehrItems)

\* The anchor dates drawn: 2026-02-19 and the day after, as day ordinals.
\* main passes midnight of the day of the run.
Dates == {20503, 20504}

RItem(title, time, duration, description, image) ==
    [title |-> title, time |-> time, duration |-> duration,
     description |-> description, image |-> image]

\* Canonical records and malformed ones: dropped titles, unparsable times,
\* times out of range, a null title, a null time, durations 0, null,
\* negative and positive, a start that repeats and one that goes back.
RadioItems ==
    {RItem(PyStr(<<"A">>), PyStr(<<"1", "0", ":", "0", "0">>), PyInt(0),
           PyStr(<<>>), PyStr(<<>>)),
     RItem(PyStr(<<"A">>), PyStr(<<"1", "0", ":", "0", "0">>), PyInt(60),
           PyStr(<<"d">>), PyStr(<<"u">>)),
     RItem(PyStr(<<"B">>), PyStr(<<"1", "0", ":", "3", "0">>), PyInt(0),
           PyStr(<<>>), PyStr(<<>>)),
     RItem(PyStr(<<" ", "B">>), PyStr(<<"1", "0", ":", "3", "0">>), PyInt(-5),
           PyNone, PyNone),
     RItem(PyStr(<<"C">>), PyStr(<<"9", ":", "5">>), PyNone,
           PyStr(<<"d">>), PyStr(<<>>)),
     RItem(PyStr(<<"C">>), PyStr(<<"2", "3", ":", "3", "0">>), PyInt(60),
           PyStr(<<>>), PyStr(<<"u">>)),
     RItem(PyStr(<<>>), PyStr(<<"1", "0", ":", "1", "5">>), PyInt(30),
           PyStr(<<>>), PyStr(<<>>)),
     RItem(PyStr(<<" ">>), PyStr(<<"1", "0", ":", "1", "5">>), PyInt(0),
           PyStr(<<>>), PyStr(<<>>)),
     RItem(PyStr(<<"A">>), PyStr(<<"b", "a", "d">>), PyInt(30),
           PyStr(<<>>), PyStr(<<>>)),
     RItem(PyStr(<<"A">>), PyStr(<<"1", ":", "2", ":", "3">>), PyInt(0),
           PyStr(<<>>), PyStr(<<>>)),
     RItem(PyStr(<<"A">>), PyNone, PyInt(0), PyStr(<<>>), PyStr(<<>>)),
     RItem(PyNone, PyStr(<<"1", "0", ":", "0", "0">>), PyInt(0),
           PyStr(<<>>), PyStr(<<>>)),
     RItem(PyStr(<<"A">>), PyStr(<<"2", "5", ":", "0", "0">>), PyInt(0),
           PyStr(<<>>), PyStr(<<>>)),
     RItem(PyStr(<<"A">>), PyStr(<<"1", "0", ":", "6", "0">>), PyInt(30),
           PyStr(<<>>), PyStr(<<>>))}

RadioLists == SeqsUpTo(RadioItems, MaxRadioItems)

\* Programme blocks of the schedule page: complete ones, the same with one
\* of the five pieces missing, and markup in which no pattern matches.
Block1 ==
    <<Frag("time", <<"0", "0", ":", "0", "0">>),
      Frag("title", <<"A">>),
      Frag("desc", <<" ", "d", "<br>", "e", "<b>", " ">>),
      Frag("duration", <<"5">>),
      Frag("image", <<"u">>)>>

Block2 ==
    <<Frag("time", <<"9", ":", "0", "5">>),
      Frag("title", <<" ", "B", " ">>),
      Frag("desc", <<"<b>", " ", "</b>">>),
      Frag("duration", <<"1", "5">>),
      Frag("image", <<"v">>)>>

Block3 ==
    <<Frag("time", <<"2", "5", ":", "0", "0">>),
      Frag("title", <<>>),
      Frag("desc", <<>>),
      Frag("duration", <<"0">>),
      Frag("image", <<"u">>)>>

Block4 ==
    <<Frag("time", <<"2", "5", ":", "0", "0">>),
      Frag("title", <<"A">>),
      Frag("desc", <<"d">>),
      Frag("duration", <<"0">>),
      Frag("image", <<"u">>)>>

\* The block without its k-th piece.
Without(block, k) == SubSeq(block, 1, k - 1) \o SubSeq(block, k + 1, Len(block))

Blocks ==
    {<<>>, Block1, Block2, Block3, Block4}
    \cup {Without(Block1, k) : k \in 1..5}
    \cup {Without(Block2, k) : k \in 1..5}

RECURSIVE Flatten(_)
Flatten(bs) == IF bs = <<>> THEN <<>> ELSE Head(bs) \o Flatten(Tail(bs))

Pages == {Flatten(bs) : bs \in SeqsUpTo(Blocks, MaxBlocks)}

\* Boxes of the secondary feed.
Box(title, time, image) == [title |-> title, time |-> time, image |-> image]

Boxes ==
    {Box(PyStr(<<"Y">>), PyStr(<<"9", ":", "5">>), PyStr(<<"/", "p">>)),
     Box(PyStr(<<" ", "Z">>), PyStr(<<"1", "2", ":", "3">>),
         PyStr(<<"h", "t", "t", "p", ":", "x">>)),
     Box(PyStr(<<"Z">>), PyStr(<<" ", "0", ":", "0">>), Missing),
     Box(PyStr(<<"W">>), PyStr(<<"1", ":", "2", ":", "3">>),
         PyStr(<<"f", "t", "p", ":", "x">>)),
     Box(PyStr(<<"V">>), PyStr(<<"2", "5", ":", "0", "0">>), PyNone),
     Box(PyStr(<<"V">>), PyStr(<<"-", "1", ":", "7">>), PyStr(<<>>)),
     Box(PyStr(<<>>), PyStr(<<"1", ":", "0">>), Missing),
     Box(Missing, PyStr(<<"1", ":", "0">>), Missing),
     Box(PyStr(<<"X">>), PyStr(<<"b", "a", "d">>), Missing),
     Box(PyStr(<<"X">>), PyStr(<<"a", ":", "b">>), Missing),
     Box(PyStr(<<"X">>), Missing, Missing),
     Box(PyNone, PyStr(<<"1", ":", "0">>), Missing),
     Box(PyStr(<<"X">>), PyNone, Missing)}

\* What the feed can answer: nothing, text that is no JSON, an object
\* without containers, and containers of which the first holds the boxes.
Feeds ==
    {[raw |-> "none", Containers |-> <<>>],
     [raw |-> "invalid", Containers |-> <<>>],
     [raw |-> "json", Containers |-> <<>>]}
    \cup {[raw |-> "json", Containers |-> <<[boxes |-> bs]>>] :
             bs \in SeqsUpTo(Boxes, MaxBoxes)}
    \cup {[raw |-> "json",
           Containers |-> <<[boxes |-> <<b>>], [boxes |-> <<c>>]>>] :
             b \in Boxes, c \in Boxes}

(***************************************************************************)
(* The state of main before it starts, shared by every specification.      *)
(***************************************************************************)
NoRet == [raised |-> FALSE, none |-> FALSE, count |-> 0, value |-> <<>>]

MainIdle ==
    /\ session = FALSE
    /\ sepehr_ok = FALSE
    /\ radio_ok = FALSE
    /\ total_programmes = 0
    /\ html = PyNone
    /\ rq_programmes = PyNone
    /\ fetched = <<>>
    /\ written = FALSE
    /\ exit_status = -1
    /\ attempt = 0
    /\ responses = <<>>

mainVars == <<session, sepehr_ok, radio_ok, total_programmes, html,
              rq_programmes, fetched, written, exit_status>>

\* The state of _cffi_fetch, which no other function touches.
fetchVars == <<attempt, responses>>

(***************************************************************************)
(* Specification of sepehr_programmes_to_xmltv as a function of its inputs.*)
(***************************************************************************)
InitSepehr ==
    /\ pc = "call"
    /\ tv \in Trees
    /\ \E programmes \in SepehrLists, tvg_id \in TvgIds :
          call = [fn |-> "sepehr_programmes_to_xmltv", tv |-> tv,
                  input |-> programmes, tvg_id |-> tvg_id, date |-> 0]
    /\ ret = NoRet
    /\ MainIdle

CallSepehr ==
    /\ pc = "call"
    /\ call.fn = "sepehr_programmes_to_xmltv"
    /\ LET r == sepehr_programmes_to_xmltv(call.tv, call.input, call.tvg_id)
       IN /\ tv' = r.tv
          /\ ret' = [NoRet EXCEPT !.raised = r.raised, !.count = r.count]
    /\ pc' = "returned"
    /\ UNCHANGED <<call, mainVars, fetchVars>>

NextSepehr == CallSepehr

SpecSepehr == InitSepehr /\ [][NextSepehr]_vars

(***************************************************************************)
(* Reading the emitted tree back, for the properties below.                *)
(***************************************************************************)
\* The elements the last call appended to the tree it was handed.
Appended == SubSeq(tv, Len(call.tv) + 1, Len(tv))

HasStop(el) == "stop" \in DOMAIN el.attrib

\* The instant a formatted datetime denotes, in seconds since the epoch.
InstantOf(t) ==
    t.ymd * SecondsPerDay + t.hh * 3600 + t.mm * 60 + t.ss
    - (IF t.zsign = "-" THEN -1 ELSE 1) * (t.zhh * 3600 + t.zmm * 60)

\* The wall-clock reading of a formatted datetime, in minutes since
\* 1970-01-01T00:00 local.
WallMinutesOf(t) == t.ymd * 1440 + t.hh * 60 + t.mm

\* The text of the first child with the given tag, as a sequence of zero or
\* one texts.
ChildTexts(el, tag) ==
    LET cs == SelectSeq(el.children, LAMBDA c : c.tag = tag)
    IN [i \in 1..Len(cs) |-> cs[i].text]

\* An item of the authenticated API that is to be emitted: start present and
\* truthy, title a str that is non-empty after trimming.
SepehrWellFormed(prog) ==
    /\ prog.start.k = "int" /\ (prog.start.hi # 0 \/ prog.start.lo # 0)
    /\ prog.title.k = "str" /\ Strip(prog.title.s) # <<>>

\* An item whose title is present but no str.
SepehrBadTitle(prog) == prog.title.k \notin {"str", "missing"}

\* The items the call got to before it returned or raised.
RECURSIVE SepehrReached(_)
SepehrReached(programmes) ==
    IF programmes = <<>> \/ SepehrBadTitle(Head(programmes))
    THEN <<>>
    ELSE <<Head(programmes)>> \o SepehrReached(Tail(programmes))

\* The items behind the appended elements, in order.
SepehrEmittedItems == SelectSeq(SepehrReached(call.input), SepehrWellFormed)

SepehrReturned ==
    pc = "returned" /\ call.fn = "sepehr_programmes_to_xmltv"

\* The duration of an item as the claim reads it: an int > 0, or none.
HasPositiveDuration(prog) ==
    prog.duration.k = "int" /\ IntVal(prog.duration) > 0

(***************************************************************************)
(* C3: on the authenticated-API path an emitted entry has a stop attribute *)
(* if and only if the item's duration is > 0, and then the stop denotes    *)
(* the instant start + duration * 60000 ms (to the second, as formatted);  *)
(* an item with duration 0, null or missing has no stop even when a later  *)
(* item follows it.                                                        *)
(***************************************************************************)
C3_SepehrStopIffDuration ==
    SepehrReturned =>
        /\ Len(Appended) = Len(SepehrEmittedItems)
        /\ \A j \in 1..Len(Appended) :
              LET el == Appended[j]
                  item == SepehrEmittedItems[j]
              IN /\ HasStop(el) <=> HasPositiveDuration(item)
                 /\ HasStop(el) =>
                       InstantOf(el.attrib.stop)
                          = item.start.hi + IntVal(item.duration) * 60

\* An entry with a stop, and an entry without one that a later entry follows.
C3_Witness ==
    /\ SepehrReturned
    /\ \E j \in 1..Len(Appended) : HasStop(Appended[j])
    /\ \E j \in 1..Len(Appended) - 1 : ~HasStop(Appended[j])

(***************************************************************************)
(* C4: sepehr_programmes_to_xmltv emits exactly one programme element, in  *)
(* input order, for each input item whose start is present and truthy and  *)
(* whose title is non-empty after trimming, nothing for any other item,    *)
(* and returns the number of elements it appended.                         *)
(***************************************************************************)
C4_SepehrOnePerWellFormedItem ==
    SepehrReturned =>
        LET wf == SelectSeq(call.input, SepehrWellFormed)
        IN /\ ~ret.raised
           /\ ret.count = Len(Appended)
           /\ Len(Appended) = Len(wf)
           /\ \A j \in 1..Len(Appended) :
                 /\ Appended[j].tag = "programme"
                 /\ ChildTexts(Appended[j], "title") = <<Strip(wf[j].title.s)>>
                 /\ InstantOf(Appended[j].attrib.start) = wf[j].start.hi

\* The call that refutes it: the title of an item is null, the call raises
\* and a well-formed item of the list is not emitted.
C4_Witness ==
    /\ SepehrReturned /\ ret.raised
    /\ \E i \in 1..Len(call.input) : call.input[i].title = PyNone
    /\ Len(Appended) < Len(SelectSeq(call.input, SepehrWellFormed))

\* The same statement for the calls that return: it holds of them.
C4_HoldsWhenNothingRaises ==
    (SepehrReturned /\ ~ret.raised) =>
        LET wf == SelectSeq(call.input, SepehrWellFormed)
        IN /\ ret.count = Len(Appended)
           /\ Len(Appended) = Len(wf)
           /\ \A j \in 1..Len(Appended) :
                 /\ Appended[j].tag = "programme"
                 /\ ChildTexts(Appended[j], "title") = <<Strip(wf[j].title.s)>>
                 /\ InstantOf(Appended[j].attrib.start) = wf[j].start.hi

(***************************************************************************)
(* C5: the description of an emitted authenticated-API item is descFull if *)
(* descFull is non-empty after trimming, else descSummary if that is       *)
(* non-empty after trimming, else empty (no desc child); a whitespace-only *)
(* descFull falls through to a non-empty descSummary.                      *)
(***************************************************************************)
Trimmed(v) == IF v.k = "str" THEN Strip(v.s) ELSE <<>>

ClaimedDesc(item) ==
    IF Trimmed(item.descFull) # <<>> THEN <<Trimmed(item.descFull)>>
    ELSE IF Trimmed(item.descSummary) # <<>> THEN <<Trimmed(item.descSummary)>>
    ELSE <<>>

C5_SepehrDescFullElseSummary ==
    SepehrReturned =>
        /\ Len(Appended) = Len(SepehrEmittedItems)
        /\ \A j \in 1..Len(Appended) :
              ChildTexts(Appended[j], "desc") = ClaimedDesc(SepehrEmittedItems[j])

\* The call that refutes it: descFull is whitespace only, descSummary is not
\* empty, and the element has no desc child.
C5_Witness ==
    /\ SepehrReturned
    /\ \E j \in 1..Len(Appended) :
          LET item == SepehrEmittedItems[j]
          IN /\ item.descFull.k = "str" /\ item.descFull.s # <<>>
             /\ Trimmed(item.descFull) = <<>>
             /\ Trimmed(item.descSummary) # <<>>
             /\ ChildTexts(Appended[j], "desc") = <<>>

\* What the code does instead: descFull wins as soon as it is a non-empty
\* str, whitespace included, and is trimmed afterwards.
C5_CodeDescFullWinsIfTruthy ==
    SepehrReturned =>
        \A j \in 1..Len(Appended) :
            LET item == SepehrEmittedItems[j]
            IN ChildTexts(Appended[j], "desc") =
                  IF item.descFull.k = "str" /\ item.descFull.s # <<>>
                  THEN (IF Strip(item.descFull.s) # <<>>
                        THEN <<Strip(item.descFull.s)>> ELSE <<>>)
                  ELSE ClaimedDesc(item)

(***************************************************************************)
(* Specification of radio_quran_to_xmltv as a function of its inputs.      *)
(***************************************************************************)
InitRadio ==
    /\ pc = "call"
    /\ tv \in Trees
    /\ \E programmes \in RadioLists, tvg_id \in TvgIds, date \in Dates :
          call = [fn |-> "radio_quran_to_xmltv", tv |-> tv,
                  input |-> programmes, tvg_id |-> tvg_id, date |-> date]
    /\ ret = NoRet
    /\ MainIdle

CallRadio ==
    /\ pc = "call"
    /\ call.fn = "radio_quran_to_xmltv"
    /\ LET r == radio_quran_to_xmltv(call.tv, call.input, call.tvg_id,
                                     call.date)
       IN /\ tv' = r.tv
          /\ ret' = [NoRet EXCEPT !.raised = r.raised, !.count = r.count]
    /\ pc' = "returned"
    /\ UNCHANGED <<call, mainVars, fetchVars>>

NextRadio == CallRadio

SpecRadio == InitRadio /\ [][NextRadio]_vars

\* A record the resolver keeps: a title that is non-empty after trimming and
\* a time of two integers H:M. hour and minute are the integers read.
RadioHM(prog) ==
    LET parts == IF prog.time.k = "str" THEN Split(prog.time.s) ELSE <<>>
    IN IF Len(parts) = 2 /\ PyIntParse(parts[1]).ok /\ PyIntParse(parts[2]).ok
       THEN <<PyIntParse(parts[1]).val, PyIntParse(parts[2]).val>>
       ELSE <<>>

RadioSurvives(prog) ==
    /\ prog.title.k = "str" /\ Strip(prog.title.s) # <<>>
    /\ RadioHM(prog) # <<>>

RadioReturned == pc = "returned" /\ call.fn = "radio_quran_to_xmltv"

\* The records behind the appended elements, in order: the surviving ones,
\* and none when the call raised.
RadioEmittedItems ==
    IF ret.raised THEN <<>> ELSE SelectSeq(call.input, RadioSurvives)

\* The start of a surviving record in minutes since 1970-01-01T00:00 local.
RadioStartMinutes(prog) ==
    call.date * 1440 + RadioHM(prog)[1] * 60 + RadioHM(prog)[2]

(***************************************************************************)
(* C1: in radio_quran_to_xmltv every surviving record whose duration is    *)
(* > 0 gets a stop attribute equal to its start + duration minutes         *)
(* exactly, whether or not a next record exists and whatever its start.    *)
(***************************************************************************)
C1_RadioStopFromDuration ==
    RadioReturned =>
        /\ Len(Appended) = Len(RadioEmittedItems)
        /\ \A j \in 1..Len(Appended) :
              LET el == Appended[j]
                  item == RadioEmittedItems[j]
              IN HasPositiveDuration(item) =>
                    /\ HasStop(el)
                    /\ WallMinutesOf(el.attrib.start) = RadioStartMinutes(item)
                    /\ WallMinutesOf(el.attrib.stop)
                          = RadioStartMinutes(item) + IntVal(item.duration)
                    /\ el.attrib.stop.ss = 0
                    /\ InstantOf(el.attrib.stop)
                          = InstantOf(el.attrib.start)
                            + IntVal(item.duration) * 60

\* A record with a duration whose stop is not the start of the record that
\* follows it: the next one starts before the duration ends.
C1_Witness ==
    /\ RadioReturned
    /\ \E j \in 1..Len(Appended) - 1 :
          /\ HasPositiveDuration(RadioEmittedItems[j])
          /\ HasStop(Appended[j])
          /\ Appended[j].attrib.stop # Appended[j + 1].attrib.start
          /\ WallMinutesOf(Appended[j + 1].attrib.start)
                < WallMinutesOf(Appended[j].attrib.stop)

(***************************************************************************)
(* C2: in radio_quran_to_xmltv a surviving record without a positive       *)
(* duration (0, null) carries a stop attribute if and only if a next       *)
(* record exists in the surviving list, in appearance order with dropped   *)
(* records skipped over, and starts strictly later; the stop then equals   *)
(* that next start. The last such record never has a stop, and an equal or *)
(* earlier next start yields none.                                         *)
(***************************************************************************)
C2_RadioStopFromNextStart ==
    RadioReturned =>
        /\ Len(Appended) = Len(RadioEmittedItems)
        /\ \A j \in 1..Len(Appended) :
              LET el == Appended[j]
                  item == RadioEmittedItems[j]
                  later == /\ j < Len(Appended)
                           /\ RadioStartMinutes(RadioEmittedItems[j + 1])
                                 > RadioStartMinutes(item)
              IN ~HasPositiveDuration(item) =>
                    /\ HasStop(el) <=> later
                    /\ HasStop(el) =>
                          /\ el.attrib.stop = Appended[j + 1].attrib.start
                          /\ WallMinutesOf(el.attrib.stop)
                                = RadioStartMinutes(RadioEmittedItems[j + 1])

\* Three records of which the middle one is dropped: the first takes its
\* stop from the third, which, being last, has none.
C2_Witness ==
    /\ RadioReturned
    /\ Len(call.input) = 3
    /\ ~RadioSurvives(call.input[2])
    /\ Len(Appended) = 2
    /\ ~HasPositiveDuration(call.input[1])
    /\ HasStop(Appended[1])
    /\ ~HasStop(Appended[2])

(***************************************************************************)
(* Specification of parse_radio_quran_html as a function of the page.      *)
(***************************************************************************)
InitHtml ==
    /\ pc = "call"
    /\ tv = <<>>
    /\ \E page \in Pages :
          call = [fn |-> "parse_radio_quran_html", tv |-> <<>>,
                  input |-> page, tvg_id |-> RadioTvgId, date |-> 0]
    /\ ret = NoRet
    /\ MainIdle

CallHtml ==
    /\ pc = "call"
    /\ call.fn = "parse_radio_quran_html"
    /\ ret' = [NoRet EXCEPT !.value = parse_radio_quran_html(call.input)]
    /\ pc' = "returned"
    /\ UNCHANGED <<tv, call, mainVars, fetchVars>>

NextHtml == CallHtml

SpecHtml == InitHtml /\ [][NextHtml]_vars

HtmlReturned == pc = "returned" /\ call.fn = "parse_radio_quran_html"

\* The positions in the page of the pieces of one kind.
Positions(kind) == {p \in 1..Len(call.input) : call.input[p].kind = kind}

\* The text captured by the i-th piece of a kind, counted from the top of
\* the page.
Nth(kind, i) ==
    LET p == CHOOSE q \in Positions(kind) :
                Cardinality({r \in Positions(kind) : r <= q}) = i
    IN call.input[p].cap

Kinds == {"time", "title", "desc", "duration", "image"}

\* The number of matches of the pattern with the fewest matches.
FewestMatches ==
    CHOOSE n \in 0..Len(call.input) :
        /\ \A k \in Kinds : n <= Cardinality(Positions(k))
        /\ \E k \in Kinds : n = Cardinality(Positions(k))

(***************************************************************************)
(* C10: parse_radio_quran_html returns exactly n records, n the least of   *)
(* the numbers of time, title, description, duration and image matches;    *)
(* record i is built from the i-th match of each of the five patterns; and *)
(* when n = 0 it returns the empty list without raising.                   *)
(***************************************************************************)
C10_HtmlZipsToShortest ==
    HtmlReturned =>
        /\ ~ret.raised /\ ~ret.none
        /\ Len(ret.value) = FewestMatches
        /\ FewestMatches = 0 => ret.value = <<>>
        /\ \A i \in 1..Len(ret.value) :
              LET r == ret.value[i]
              IN /\ r.time = PyStr(Nth("time", i))
                 /\ r.title = PyStr(Strip(Nth("title", i)))
                 /\ r.duration.k = "int"
                 /\ NatToChars(IntVal(r.duration)) = Nth("duration", i)
                 /\ r.image = PyStr(Nth("image", i))
                 /\ r.description.k = "str"
                 /\ \A c \in BrTags \cup OtherTags :
                       \A x \in 1..Len(r.description.s) :
                           r.description.s[x] # c
                 /\ SelectSeq(r.description.s, LAMBDA c : c \notin Whitespace)
                       = SelectSeq(Nth("desc", i),
                            LAMBDA c : c \notin Whitespace \cup BrTags
                                                  \cup OtherTags)

\* The patterns disagree in number and records are still returned, the last
\* pairing pieces of two different blocks.
C10_Witness ==
    /\ HtmlReturned
    /\ Len(ret.value) = 2
    /\ Cardinality(Positions("time")) = 2
    /\ Cardinality(Positions("title")) = 3
    /\ ret.value[1].title # ret.value[2].title

(***************************************************************************)
(* Specification of the box normalisation of fetch_radio_quran_json as a   *)
(* function of what the feed answers.                                      *)
(***************************************************************************)
InitJson ==
    /\ pc = "call"
    /\ tv = <<>>
    /\ \E feed \in Feeds :
          call = [fn |-> "fetch_radio_quran_json", tv |-> <<>>,
                  input |-> feed, tvg_id |-> RadioTvgId, date |-> 0]
    /\ ret = NoRet
    /\ MainIdle

CallJson ==
    /\ pc = "call"
    /\ call.fn = "fetch_radio_quran_json"
    /\ LET r == fetch_radio_quran_json(call.input)
       IN ret' = [NoRet EXCEPT !.raised = r.raised, !.none = r.none,
                               !.value = r.value]
    /\ pc' = "returned"
    /\ UNCHANGED <<tv, call, mainVars, fetchVars>>

NextJson == CallJson

SpecJson == InitJson /\ [][NextJson]_vars

(***************************************************************************)
(* The three functions of the core that take records one by one, under one *)
(* specification.                                                          *)
(***************************************************************************)
InitCore == InitSepehr \/ InitRadio \/ InitJson

NextCore == CallSepehr \/ CallRadio \/ CallJson

SpecCore == InitCore /\ [][NextCore]_vars

\* A radio record that is to be emitted: it survives and its time is a time
\* of day.
RadioWellFormed(prog) ==
    /\ RadioSurvives(prog)
    /\ RadioHM(prog)[1] \in 0..23
    /\ RadioHM(prog)[2] \in 0..59

\* A box of the secondary feed that is to be kept: a title that is non-empty
\* after trimming and a time with a ':' whose first two parts are integers.
BoxWellFormed(box) ==
    /\ box.title.k = "str" /\ Strip(box.title.s) # <<>>
    /\ box.time.k = "str"
    /\ Len(Split(Strip(box.time.s))) >= 2
    /\ PyIntParse(Split(Strip(box.time.s))[1]).ok
    /\ PyIntParse(Split(Strip(box.time.s))[2]).ok

\* The boxes the secondary-feed parser reads: those of the first container.
FeedBoxes(feed) ==
    IF feed.raw = "json" /\ feed.Containers # <<>>
    THEN feed.Containers[1].boxes ELSE <<>>

(***************************************************************************)
(* C6: sepehr_programmes_to_xmltv, the secondary-feed box normalisation    *)
(* and radio_quran_to_xmltv never raise, whatever list they are given: a   *)
(* malformed record (missing or null title, missing start, a time that is  *)
(* not two integers, an hour or minute out of range) is skipped and every  *)
(* well-formed record of the batch is still emitted.                       *)
(***************************************************************************)
C6_CoreNeverRaises ==
    pc = "returned" =>
        /\ ~ret.raised
        /\ call.fn = "sepehr_programmes_to_xmltv" =>
              Len(Appended) = Len(SelectSeq(call.input, SepehrWellFormed))
        /\ call.fn = "radio_quran_to_xmltv" =>
              Len(Appended) = Len(SelectSeq(call.input, RadioWellFormed))
        /\ call.fn = "fetch_radio_quran_json" =>
              Len(ret.value)
                 = Len(SelectSeq(FeedBoxes(call.input), BoxWellFormed))

\* The call that refutes it: every title is a str, the hour or minute of a
\* record is out of range, radio_quran_to_xmltv raises and a well-formed
\* record of the batch is not emitted.
C6_Witness ==
    /\ RadioReturned /\ ret.raised
    /\ \A i \in 1..Len(call.input) : call.input[i].title.k = "str"
    /\ \E i \in 1..Len(call.input) :
          RadioSurvives(call.input[i]) /\ ~RadioWellFormed(call.input[i])
    /\ \E i \in 1..Len(call.input) : RadioWellFormed(call.input[i])
    /\ Appended = <<>>

\* The other two functions raise as well: on a null title on the
\* authenticated path, and on a null time in the secondary feed.
C6_SepehrRaisesOnNullTitle ==
    /\ SepehrReturned /\ ret.raised
    /\ \E i \in 1..Len(call.input) : call.input[i].title = PyNone

C6_FeedRaisesOnNullTime ==
    /\ pc = "returned" /\ call.fn = "fetch_radio_quran_json" /\ ret.raised
    /\ \A i \in 1..Len(FeedBoxes(call.input)) :
          FeedBoxes(call.input)[i].title.k # "none"

\* Apart from the raises the functions do what the claim says: a call that
\* returns has emitted every well-formed record and nothing else.
C6_HoldsWhenNothingRaises ==
    (pc = "returned" /\ ~ret.raised) =>
        /\ call.fn = "sepehr_programmes_to_xmltv" =>
              Len(Appended) = Len(SelectSeq(call.input, SepehrWellFormed))
        /\ call.fn = "radio_quran_to_xmltv" =>
              Len(Appended) = Len(SelectSeq(call.input, RadioWellFormed))
        /\ call.fn = "fetch_radio_quran_json" =>
              Len(ret.value)
                 = Len(SelectSeq(FeedBoxes(call.input), BoxWellFormed))

(***************************************************************************)
(* main                                                                    *)
(*                                                                         *)
(* One action per stretch of main between two calls to the outside. The    *)
(* answers of the outside are drawn from small sets.                       *)
(***************************************************************************)
\* NeedsFallback with "is None" for "not": an empty list from the HTML
\* parser does not send main to the secondary feed.
NeedsFallback_OnlyNone(programmes) == programmes.k = "none"

\* if not rq_programmes: None and the empty list both send main to the
\* secondary feed.
NeedsFallback(programmes) == programmes.k = "none" \/ programmes.list = <<>>

\* What parsing leaves in rq_programmes: None unless the text fetched is
\* non-empty (if html:), else the parsed list.
ParsedHtml(h) ==
    IF h.k = "page"
    THEN [k |-> "list", list |-> parse_radio_quran_html(h.page)]
    ELSE [k |-> "none", list |-> <<>>]

\* What fetch_sepehr_epg can hand to main for the channel.
MainSepehrLists ==
    {<<>>,
     <<SItem(T0, PyStr(<<"A">>), PyInt(30), Missing, Missing, Missing)>>,
     <<SItem(T0, PyStr(<<"A">>), PyInt(30), Missing, Missing, Missing),
       SItem(T1, PyStr(<<" ", "B", " ">>), PyInt(0), Missing,
             PyStr(<<"S">>), PyStr(<<"u">>))>>,
     <<SItem(T0, PyStr(<<"A">>), PyInt(30), Missing, Missing, Missing),
       SItem(T1, PyNone, PyInt(0), Missing, Missing, Missing)>>,
     <<SItem(Missing, PyStr(<<"A">>), PyInt(30), Missing, Missing, Missing)>>}

\* What fetch_radio_quran_html can return: None, the empty text, or a page.
MainHtmls ==
    {[k |-> "none", page |-> <<>>], [k |-> "empty", page |-> <<>>]}
    \cup {[k |-> "page", page |-> Flatten(bs)] :
             bs \in SeqsUpTo({Block1, Block3, Block4, Without(Block2, 4)}, 2)}

\* What the secondary feed can answer.
MainFeeds ==
    {f \in Feeds :
        /\ Len(f.Containers) <= 1
        /\ \A i \in 1..Len(FeedBoxes(f)) :
              FeedBoxes(f)[i].title \in {PyStr(<<"Y">>), PyStr(<<"V">>),
                                         PyStr(<<>>), PyNone}}

InitMain ==
    /\ pc = "start"
    /\ tv = <<>>
    /\ \E today \in Dates :
          call = [fn |-> "main", tv |-> <<>>, input |-> <<>>,
                  tvg_id |-> "", date |-> today]
    /\ ret = NoRet
    /\ MainIdle

\* session = create_sepehr_session(): None unless all four credentials are
\* set. Without a session main goes on to the radio stage.
CreateSession ==
    /\ UNCHANGED fetchVars
    /\ pc = "start"
    /\ \E creds \in BOOLEAN :
          /\ session' = creds
          /\ pc' = IF creds THEN "check_token" ELSE "radio"
    /\ UNCHANGED <<tv, call, ret, sepehr_ok, radio_ok, total_programmes, html,
                   rq_programmes, fetched, written, exit_status>>

\* check_sepehr_token(session): one fetch; valid iff it returned at least one
\* programme, invalid when it returned none or raised. On a valid token
\* main sets sepehr_ok and registers the Sepehr channel definitions.
CheckToken ==
    /\ UNCHANGED fetchVars
    /\ pc = "check_token"
    /\ fetched' = Append(fetched, "sepehr")
    /\ \E answer \in {"programmes", "empty", "raised"} :
          IF answer = "programmes"
          THEN /\ sepehr_ok' = TRUE
               /\ tv' = Append(tv, ChannelEl(SepehrTvgId, SepehrDisplayName,
                                             SepehrLogo))
               /\ pc' = "fetch_sepehr"
          ELSE /\ UNCHANGED <<sepehr_ok, tv>>
               /\ pc' = "radio"
    /\ UNCHANGED <<call, ret, session, radio_ok, total_programmes, html,
                   rq_programmes, written, exit_status>>

\* The loop over SEPEHR_CHANNELS (one channel): fetch_sepehr_epg, then
\* sepehr_programmes_to_xmltv; added is counted only when the call returns.
\* An exception of either is caught and main goes on.
FetchSepehr ==
    /\ UNCHANGED fetchVars
    /\ pc = "fetch_sepehr"
    /\ fetched' = Append(fetched, "sepehr")
    /\ \/ \* fetch_sepehr_epg raised
          UNCHANGED <<tv, call, ret, total_programmes>>
       \/ \E progs \in MainSepehrLists :
             LET r == sepehr_programmes_to_xmltv(tv, progs, SepehrTvgId)
             IN /\ call' = [fn |-> "sepehr_programmes_to_xmltv", tv |-> tv,
                            input |-> progs, tvg_id |-> SepehrTvgId,
                            date |-> call.date]
                /\ tv' = r.tv
                /\ ret' = [NoRet EXCEPT !.raised = r.raised,
                                        !.count = r.count]
                /\ total_programmes' =
                      IF r.raised THEN total_programmes
                      ELSE total_programmes + r.count
    /\ pc' = "radio"
    /\ UNCHANGED <<session, sepehr_ok, radio_ok, html, rq_programmes, written,
                   exit_status>>

\* FetchHtml without lines 450-453: the radio stage registers no channel
\* definition.
FetchHtml_Unregistered ==
    /\ UNCHANGED fetchVars
    /\ pc = "radio"
    /\ fetched' = Append(fetched, "html")
    /\ \E h \in MainHtmls :
          /\ html' = h
          /\ rq_programmes' = ParsedHtml(h)
          /\ pc' = IF NeedsFallback(ParsedHtml(h)) THEN "fallback"
                   ELSE "convert"
    /\ UNCHANGED <<tv, call, ret, session, sepehr_ok, radio_ok,
                   total_programmes, written, exit_status>>

\* The radio stage up to the parsed page: the Radio Quran channel definition
\* is registered, the page fetched and, if the text is non-empty, parsed.
FetchHtml ==
    /\ UNCHANGED fetchVars
    /\ pc = "radio"
    /\ tv' = Append(tv, ChannelEl(RadioTvgId, RadioDisplayName, RadioLogo))
    /\ fetched' = Append(fetched, "html")
    /\ \E h \in MainHtmls :
          /\ html' = h
          /\ rq_programmes' = ParsedHtml(h)
          /\ pc' = IF NeedsFallback(ParsedHtml(h)) THEN "fallback"
                   ELSE "convert"
    /\ UNCHANGED <<call, ret, session, sepehr_ok, radio_ok, total_programmes,
                   written, exit_status>>

\* if not rq_programmes: rq_programmes = fetch_radio_quran_json(). An
\* exception of the box normalisation is caught nowhere: the process ends
\* with a traceback and status 1.
FetchJson ==
    /\ UNCHANGED fetchVars
    /\ pc = "fallback"
    /\ fetched' = Append(fetched, "json")
    /\ \E feed \in MainFeeds :
          LET r == fetch_radio_quran_json(feed)
          IN /\ call' = [fn |-> "fetch_radio_quran_json", tv |-> tv,
                         input |-> feed, tvg_id |-> RadioTvgId,
                         date |-> call.date]
             /\ ret' = [NoRet EXCEPT !.raised = r.raised, !.none = r.none,
                                     !.value = r.value]
             /\ IF r.raised
                THEN /\ pc' = "exited"
                     /\ exit_status' = 1
                     /\ UNCHANGED rq_programmes
                ELSE /\ pc' = "convert"
                     /\ rq_programmes' =
                           IF r.none THEN [k |-> "none", list |-> <<>>]
                           ELSE [k |-> "list", list |-> r.value]
                     /\ UNCHANGED exit_status
    /\ UNCHANGED <<tv, session, sepehr_ok, radio_ok, total_programmes, html,
                   written>>

\* The end of the radio stage: nothing to convert when rq_programmes is None
\* or empty; otherwise radio_quran_to_xmltv with day_start, whose exception
\* is caught nowhere.
ConvertRadio ==
    /\ UNCHANGED fetchVars
    /\ pc = "convert"
    /\ IF NeedsFallback(rq_programmes)
       THEN /\ pc' = "write"
            /\ UNCHANGED <<tv, call, ret, radio_ok, total_programmes,
                           exit_status>>
       ELSE LET r == radio_quran_to_xmltv(tv, rq_programmes.list, RadioTvgId,
                                          call.date)
            IN /\ call' = [fn |-> "radio_quran_to_xmltv", tv |-> tv,
                           input |-> rq_programmes.list,
                           tvg_id |-> RadioTvgId, date |-> call.date]
               /\ ret' = [NoRet EXCEPT !.raised = r.raised, !.count = r.count]
               /\ tv' = r.tv
               /\ IF r.raised
                  THEN /\ pc' = "exited"
                       /\ exit_status' = 1
                       /\ UNCHANGED <<radio_ok, total_programmes>>
                  ELSE /\ pc' = "write"
                       /\ radio_ok' = (r.count > 0)
                       /\ total_programmes' = total_programmes + r.count
                       /\ UNCHANGED exit_status
    /\ UNCHANGED <<session, sepehr_ok, html, rq_programmes, fetched, written>>

\* Steps 3 and 4: exit 1 without writing when there is no programme at all;
\* otherwise write the file, and exit 1 after it if both sources failed.
WriteOutput ==
    /\ UNCHANGED fetchVars
    /\ pc = "write"
    /\ pc' = "exited"
    /\ IF total_programmes = 0
       THEN /\ exit_status' = 1
            /\ UNCHANGED written
       ELSE /\ written' = TRUE
            /\ exit_status' = IF ~sepehr_ok /\ ~radio_ok THEN 1 ELSE 0
    /\ UNCHANGED <<tv, call, ret, session, sepehr_ok, radio_ok,
                   total_programmes, html, rq_programmes, fetched>>

Next ==
    \/ CreateSession
    \/ CheckToken
    \/ FetchSepehr
    \/ FetchHtml
    \/ FetchJson
    \/ ConvertRadio
    \/ WriteOutput

Spec == InitMain /\ [][Next]_vars

\* main ended with a traceback: the secondary-feed parser or the radio
\* emitter raised.
Crashed ==
    /\ pc = "exited" /\ ret.raised
    /\ call.fn \in {"fetch_radio_quran_json", "radio_quran_to_xmltv"}

(***************************************************************************)
(* C7: the exit status of main is non-zero if and only if the total number *)
(* of programmes emitted from all sources is zero; with a total of zero no *)
(* file is written; with a total above zero the file is written and the    *)
(* status is zero, even if one source failed entirely.                     *)
(***************************************************************************)
C7_ExitStatusIffNoProgrammes ==
    pc = "exited" =>
        /\ exit_status # 0 <=> total_programmes = 0
        /\ total_programmes = 0 => ~written
        /\ total_programmes > 0 => (written /\ exit_status = 0)

\* The run that refutes it: Sepehr programmes were counted, the radio stage
\* raised, and main ended with status 1 and no file.
C7_Witness ==
    /\ Crashed
    /\ total_programmes > 0
    /\ exit_status = 1
    /\ ~written

\* The runs that do not end in a traceback do what the claim says.
C7_HoldsUnlessCrashed ==
    (pc = "exited" /\ ~Crashed) =>
        /\ exit_status # 0 <=> total_programmes = 0
        /\ total_programmes = 0 => ~written
        /\ total_programmes > 0 => (written /\ exit_status = 0)

\* The place of a source in the order of consultation.
Rank(source) ==
    CASE source = "sepehr" -> 1 [] source = "html" -> 2 [] source = "json" -> 3

Consulted(source) == \E i \in 1..Len(fetched) : fetched[i] = source

\* The page fetched gives the parser nothing: no text, or a text in which
\* one of the five patterns matches nowhere.
HtmlYieldsNothing ==
    \/ html.k # "page"
    \/ \E kind \in Kinds :
          \A p \in 1..Len(html.page) : html.page[p].kind # kind

(***************************************************************************)
(* C8: main consults the sources strictly in the order authenticated API,  *)
(* radio HTML page, secondary JSON feed; the HTML fetch is attempted       *)
(* whatever the outcome of the authenticated stage (no credentials,        *)
(* invalid token, fetch or conversion raised); the secondary feed is       *)
(* fetched if and only if the HTML fetch returned nothing or the HTML      *)
(* parser returned an empty list.                                          *)
(***************************************************************************)
C8_SourceOrderAndFallback ==
    /\ \A i, j \in 1..Len(fetched) :
          i < j => /\ Rank(fetched[i]) <= Rank(fetched[j])
                   /\ fetched[i] = fetched[j] => fetched[i] = "sepehr"
    /\ pc = "radio" => ENABLED FetchHtml
    /\ pc \in {"fallback", "convert", "write", "exited"} => Consulted("html")
    /\ pc = "fallback" => (HtmlYieldsNothing /\ ENABLED FetchJson)
    /\ pc \in {"convert", "write", "exited"} =>
          (Consulted("json") <=> HtmlYieldsNothing)

\* The authenticated stage ended with an exception inside the conversion
\* (an element is in the tree and nothing was counted), the page was fetched
\* all the same and parsed to nothing, and the feed was consulted last.
C8_Witness ==
    /\ pc = "convert"
    /\ fetched = <<"sepehr", "sepehr", "html", "json">>
    /\ html.k = "page"
    /\ HtmlYieldsNothing
    /\ total_programmes = 0
    /\ \E i \in 1..Len(tv) - 1 :
          tv[i].tag = "programme" /\ tv[i + 1].tag = "channel"

(***************************************************************************)
(* C9: in the tree main serialises every channel element precedes every    *)
(* programme element among the root's children, for every combination of   *)
(* source outcomes.                                                        *)
(***************************************************************************)
C9_ChannelsBeforeProgrammes ==
    (pc = "write" \/ written) =>
        \A i, j \in 1..Len(tv) :
            i < j => ~(tv[i].tag = "programme" /\ tv[j].tag = "channel")

\* The run that refutes it: the file is written, with status 0, from a tree
\* in which the Radio Quran channel follows a Sepehr programme.
C9_Witness ==
    /\ written /\ exit_status = 0
    /\ \E i, j \in 1..Len(tv) :
          /\ i < j
          /\ tv[i].tag = "programme" /\ tv[i].attrib.channel = SepehrTvgId
          /\ tv[j].tag = "channel" /\ tv[j].attrib.id = RadioTvgId

\* What the code keeps instead: the Sepehr channel and its programmes come
\* first, the Radio Quran channel after them, the radio programmes last.
C9_CodeOrder ==
    (pc = "write" \/ written) =>
        \A i, j \in 1..Len(tv) :
            (i < j /\ tv[i].tag = "programme" /\ tv[j].tag = "channel") =>
                /\ tv[i].attrib.channel = SepehrTvgId
                /\ tv[j].attrib.id = RadioTvgId

(***************************************************************************)
(* The two radio parsers under one specification.                          *)
(***************************************************************************)
InitParsers == InitHtml \/ InitJson

NextParsers == CallHtml \/ CallJson

SpecParsers == InitParsers /\ [][NextParsers]_vars

ParserReturned ==
    /\ pc = "returned"
    /\ call.fn \in {"parse_radio_quran_html", "fetch_radio_quran_json"}

\* A text of the form HH:MM: two digits, a colon, two digits.
IsHHMM(s) ==
    /\ Len(s) = 5
    /\ s[3] = ":"
    /\ \A i \in {1, 2, 4, 5} : IsDigit(s[i])

(***************************************************************************)
(* C11: every record returned by either radio parser has a time of the     *)
(* form HH:MM, exactly two digits for the hour and two for the minute, for *)
(* every input the parser accepts.                                         *)
(***************************************************************************)
C11_TimesAreHHMM ==
    ParserReturned =>
        \A i \in 1..Len(ret.value) :
            ret.value[i].time.k = "str" /\ IsHHMM(ret.value[i].time.s)

\* The call that refutes it: the page holds the time 9:05, which the time
\* pattern matches, and the HTML parser returns it as it stands.
C11_Witness ==
    /\ HtmlReturned
    /\ \E i \in 1..Len(ret.value) :
          ret.value[i].time = PyStr(<<"9", ":", "0", "5">>)

\* The secondary-feed parser refutes it too: the hour -1 is formatted "-1".
C11_FeedNegativeHour ==
    /\ pc = "returned" /\ call.fn = "fetch_radio_quran_json"
    /\ \E i \in 1..Len(ret.value) :
          ret.value[i].time = PyStr(<<"-", "1", ":", "0", "7">>)

\* What the code keeps: the HTML parser returns the time as the pattern
\* captured it, and the secondary-feed parser pads to HH:MM the hours and
\* minutes that are integers of 0..99.
C11_CodeTimes ==
    /\ HtmlReturned =>
          \A i \in 1..Len(ret.value) :
              ret.value[i].time = PyStr(Nth("time", i))
    /\ (pc = "returned" /\ call.fn = "fetch_radio_quran_json") =>
          \A i \in 1..Len(ret.value) :
              LET kept == SelectSeq(FeedBoxes(call.input), BoxWellFormed)
                  parts == Split(Strip(kept[i].time.s))
                  h == PyIntParse(parts[1]).val
                  m == PyIntParse(parts[2]).val
              IN (h \in 0..99 /\ m \in 0..99)
                    => IsHHMM(ret.value[i].time.s)

JsonReturned == pc = "returned" /\ call.fn = "fetch_radio_quran_json"

\* The boxes of the first container that are to be kept, in box order.
KeptBoxes == SelectSeq(FeedBoxes(call.input), BoxWellFormed)

\* The hour and minute a time text reads as.
HourMinuteOf(s) ==
    <<PyIntParse(Split(Strip(s))[1]).val, PyIntParse(Split(Strip(s))[2]).val>>

\* The records are those of the kept boxes, in order, each with the five
\* keys, the trimmed title, the hour and minute of the box, no description
\* and no duration.
FeedRecordsMatchKeptBoxes ==
    /\ ~ret.none
    /\ Len(ret.value) = Len(KeptBoxes)
    /\ \A i \in 1..Len(ret.value) :
          LET r == ret.value[i]
          IN /\ DOMAIN r = {"time", "title", "description", "duration", "image"}
             /\ r.title = PyStr(Strip(KeptBoxes[i].title.s))
             /\ r.time.k = "str"
             /\ HourMinuteOf(r.time.s) = HourMinuteOf(KeptBoxes[i].time.s)
             /\ r.description = PyStr(<<>>)
             /\ r.duration = PyInt(0)

(***************************************************************************)
(* C12: the secondary-feed parser reads only the boxes of the first        *)
(* container and returns, in box order, one record for each box whose      *)
(* trimmed title is non-empty and whose time holds a ':' with both parts   *)
(* integers; every other box is dropped silently; each record has          *)
(* description "" and duration 0 and exactly the keys time, title,         *)
(* description, duration, image; missing or empty containers or boxes      *)
(* give the empty list.                                                    *)
(***************************************************************************)
C12_FeedOneRecordPerKeptBox ==
    (JsonReturned /\ call.input.raw = "json") =>
        /\ ~ret.raised
        /\ FeedRecordsMatchKeptBoxes

\* The call that refutes it: a box other than the kept ones (its time is
\* null) is not dropped, the parser raises, and the box before or after it
\* that is to be kept gives no record.
C12_Witness ==
    /\ JsonReturned /\ ret.raised
    /\ KeptBoxes # <<>>
    /\ \E i \in 1..Len(FeedBoxes(call.input)) :
          FeedBoxes(call.input)[i].time = PyNone

\* The same statement for the calls that return: it holds of them, the
\* second container being ignored.
C12_HoldsWhenNothingRaises ==
    (JsonReturned /\ call.input.raw = "json" /\ ~ret.raised) =>
        FeedRecordsMatchKeptBoxes

\* A feed of two containers whose second holds a box to keep and whose
\* first holds none: the list returned is empty.
C12_SecondContainerIgnored ==
    /\ JsonReturned /\ ~ret.raised
    /\ Len(call.input.Containers) = 2
    /\ BoxWellFormed(call.input.Containers[2].boxes[1])
    /\ ret.value = <<>>

Letters ==
    {"a", "b", "c", "d", "e", "f", "g", "h", "i", "j", "k", "l", "m", "n",
     "o", "p", "q", "r", "s", "t", "u", "v", "w", "x", "y", "z"}

\* The text begins with a URL scheme: letters, then a colon.
HasScheme(s) ==
    \E k \in 2..Len(s) :
        /\ s[k] = ":"
        /\ \A j \in 1..(k - 1) : s[j] \in Letters

\* The image of the i-th kept box as the feed gave it ("" when absent).
KeptImage(i) == Get(KeptBoxes[i].image, PyStr(<<>>))

(***************************************************************************)
(* C13: for every box the secondary-feed parser keeps, an empty image      *)
(* stays empty; a non-empty image that does not begin with a URL scheme    *)
(* gets the origin "https://radioquran.ir" prepended; a non-empty image    *)
(* that is already absolute, beginning with an HTTP-like scheme or with    *)
(* any other scheme, is passed through unchanged.                          *)
(***************************************************************************)
C13_ImagePrefixedUnlessAbsolute ==
    (JsonReturned /\ ~ret.raised /\ ~ret.none) =>
        \A i \in 1..Len(ret.value) :
            ret.value[i].image =
                IF ~Truthy(KeptImage(i)) THEN KeptImage(i)
                ELSE IF HasScheme(KeptImage(i).s) THEN KeptImage(i)
                ELSE PyStr(Origin \o KeptImage(i).s)

\* The call that refutes it: the image of a kept box is "ftp:x", and the
\* record's image is the origin followed by it.
C13_Witness ==
    /\ JsonReturned /\ ~ret.raised
    /\ \E i \in 1..Len(ret.value) :
          /\ KeptImage(i) = PyStr(<<"f", "t", "p", ":", "x">>)
          /\ ret.value[i].image = PyStr(Origin \o <<"f", "t", "p", ":", "x">>)

\* What the code keeps: the origin is prepended to every non-empty image
\* whose first four characters are not "http", whatever else it begins with.
C13_CodePrefixUnlessHttp ==
    (JsonReturned /\ ~ret.raised /\ ~ret.none) =>
        \A i \in 1..Len(ret.value) :
            LET s == KeptImage(i).s
                http == /\ Len(s) >= 4
                        /\ s[1] = "h" /\ s[2] = "t" /\ s[3] = "t" /\ s[4] = "p"
            IN ret.value[i].image =
                  IF ~Truthy(KeptImage(i)) \/ http THEN KeptImage(i)
                  ELSE PyStr(Origin \o s)

\* The cases the claim has right, each reached: a relative path prefixed, an
\* http URL unchanged, an absent image left empty.
C13_RelativePrefixed ==
    /\ JsonReturned /\ ~ret.raised
    /\ \E i \in 1..Len(ret.value) :
          /\ KeptImage(i) = PyStr(<<"/", "p">>)
          /\ ret.value[i].image = PyStr(Origin \o <<"/", "p">>)

(***************************************************************************)
(* The two emitters under one specification.                               *)
(***************************************************************************)
InitEmitters == InitSepehr \/ InitRadio

NextEmitters == CallSepehr \/ CallRadio

SpecEmitters == InitEmitters /\ [][NextEmitters]_vars

EmitterReturned == SepehrReturned \/ RadioReturned

\* The records behind the appended elements, in order.
EmittedItems ==
    IF call.fn = "sepehr_programmes_to_xmltv" THEN SepehrEmittedItems
    ELSE RadioEmittedItems

\* A value as a sequence of zero or one texts: none for an absent, null or
\* empty value.
TextOf(v) == IF v.k = "str" /\ v.s # <<>> THEN <<v.s>> ELSE <<>>

\* The description of a record: on the authenticated path descFull, else
\* descSummary, trimmed; on the radio path the description field.
ItemDescription(item) ==
    IF call.fn = "sepehr_programmes_to_xmltv" THEN ClaimedDesc(item)
    ELSE TextOf(item.description)

\* The description as line 155 computes it on the authenticated path: the
\* first of descFull and descSummary that is a non-empty str, trimmed.
ItemDescriptionInCode(item) ==
    IF call.fn = "sepehr_programmes_to_xmltv"
    THEN LET first == IF TextOf(item.descFull) # <<>> THEN item.descFull
                      ELSE item.descSummary
         IN TextOf(PyStr(Trimmed(first)))
    ELSE TextOf(item.description)

ItemImage(item) ==
    IF call.fn = "sepehr_programmes_to_xmltv" THEN TextOf(item.imageUrl)
    ELSE TextOf(item.image)

ChildrenTagged(el, tag) == SelectSeq(el.children, LAMBDA c : c.tag = tag)

\* Every appended element is a programme with a start, the caller's
\* channel, one title child with the trimmed title, a desc child iff the
\* description D gives is non-empty, an icon child iff there is an image,
\* and lang="fa" on title and desc.
ElementsWellFormed(D(_)) ==
    /\ Len(Appended) = Len(EmittedItems)
    /\ \A j \in 1..Len(Appended) :
          LET el == Appended[j]
              item == EmittedItems[j]
          IN /\ el.tag = "programme"
             /\ "start" \in DOMAIN el.attrib
             /\ el.attrib.channel = call.tvg_id
             /\ Strip(item.title.s) # <<>>
             /\ ChildrenTagged(el, "title")
                   = <<[tag |-> "title", attrib |-> [lang |-> "fa"],
                        text |-> Strip(item.title.s)]>>
             /\ ChildrenTagged(el, "desc")
                   = [k \in 1..Len(D(item)) |->
                         [tag |-> "desc", attrib |-> [lang |-> "fa"],
                          text |-> D(item)[k]]]
             /\ ChildrenTagged(el, "icon")
                   = [k \in 1..Len(ItemImage(item)) |->
                         [tag |-> "icon",
                          attrib |-> [src |-> ItemImage(item)[k]],
                          text |-> <<>>]]
             /\ Len(el.children)
                   = 1 + Len(D(item)) + Len(ItemImage(item))

(***************************************************************************)
(* C14: every programme element either emitter appends has a start         *)
(* attribute, a channel attribute equal to the tvg_id passed, exactly one  *)
(* title child whose text is the non-empty trimmed title, a desc child if  *)
(* and only if the description is non-empty, an icon child (src the image  *)
(* URL) if and only if the image URL is non-empty, null counting as empty; *)
(* title and desc carry lang="fa".                                         *)
(***************************************************************************)
C14_ElementShape == EmitterReturned => ElementsWellFormed(ItemDescription)

\* The call that refutes it: the description of an item of the authenticated
\* path is its descSummary, descFull being whitespace only, and the element
\* has a title child and no desc child.
C14_Witness ==
    /\ SepehrReturned
    /\ \E j \in 1..Len(Appended) :
          /\ ItemDescription(SepehrEmittedItems[j]) # <<>>
          /\ ChildrenTagged(Appended[j], "desc") = <<>>
          /\ Len(ChildrenTagged(Appended[j], "title")) = 1

\* With the description as the code computes it the statement holds, on
\* both paths.
C14_HoldsOfCodeDescription ==
    EmitterReturned => ElementsWellFormed(ItemDescriptionInCode)

\* An element with all three children on the radio path, and one with the
\* title alone after it.
C14_RadioAllChildren ==
    /\ RadioReturned
    /\ \E j \in 1..Len(Appended) - 1 :
          /\ Len(Appended[j].children) = 3
          /\ Len(Appended[j + 1].children) = 1

(***************************************************************************)
(* C15: every call of sepehr_programmes_to_xmltv or radio_quran_to_xmltv   *)
(* on a shared tree is append-only: the children the tree had (channel     *)
(* elements, programmes of earlier calls) stay as they were and in place,  *)
(* the elements added are programme elements in surviving-record order,    *)
(* as many as the count returned, and the input list is unchanged; with an *)
(* empty list the call returns 0 and leaves the tree as it was.            *)
(***************************************************************************)
C15_AppendOnly ==
    /\ pc = "call" => (tv = call.tv /\ ret = NoRet)
    /\ EmitterReturned =>
          /\ Len(tv) >= Len(call.tv)
          /\ SubSeq(tv, 1, Len(call.tv)) = call.tv
          /\ ~ret.raised => ret.count = Len(tv) - Len(call.tv)
          /\ Len(Appended) = Len(EmittedItems)
          /\ \A j \in 1..Len(Appended) :
                /\ Appended[j].tag = "programme"
                /\ ChildTexts(Appended[j], "title")
                      = <<Strip(EmittedItems[j].title.s)>>
          /\ call.input = <<>> =>
                (~ret.raised /\ ret.count = 0 /\ tv = call.tv)

\* A call that returns 2 on a tree that held a channel definition and a
\* programme of an earlier call: both are still its first two children.
C15_Witness ==
    /\ EmitterReturned /\ ~ret.raised
    /\ Len(call.tv) = 2
    /\ call.tv[2].tag = "programme"
    /\ ret.count = 2
    /\ Len(tv) = 4
    /\ tv[1] = call.tv[1] /\ tv[2] = call.tv[2]

\* A formatted datetime of the form YYYYMMDDHHMMSS +0330.
IsIranStamp(t) ==
    /\ t.hh \in 0..23 /\ t.mm \in 0..59 /\ t.ss \in 0..59
    /\ t.zsign = "+" /\ t.zhh = 3 /\ t.zmm = 30

\* The start and, if any, the stop of an element.
StampsOf(el) ==
    {el.attrib.start} \cup (IF HasStop(el) THEN {el.attrib.stop} ELSE {})

(***************************************************************************)
(* C16: every start and stop attribute either emitter writes has the form  *)
(* YYYYMMDDHHMMSS, a space, and the offset +0330, for every instant and    *)
(* reference date: the fixed Iran offset, never UTC, never adjusted for    *)
(* daylight saving.                                                        *)
(***************************************************************************)
C16_FixedIranOffset ==
    EmitterReturned =>
        \A j \in 1..Len(Appended) :
            \A t \in StampsOf(Appended[j]) : IsIranStamp(t)

\* The call that refutes it: an item of the authenticated path starts at
\* 2021-03-21 23:30 +0330 and lasts 60 minutes; its stop, an instant after
\* the clocks of Asia/Tehran went forward, is written with +0430.
C16_Witness ==
    /\ SepehrReturned
    /\ \E j \in 1..Len(Appended) :
          /\ IsIranStamp(Appended[j].attrib.start)
          /\ HasStop(Appended[j])
          /\ Appended[j].attrib.stop.zhh = 4
          /\ Appended[j].attrib.stop.zmm = 30
          /\ Appended[j].attrib.stop.hh = 1

\* What the code keeps: the offset is that of Asia/Tehran at the instant,
\* +0330 outside the daylight-saving period and +0430 inside it.
C16_CodeZoneOffset ==
    EmitterReturned =>
        \A j \in 1..Len(Appended) :
            \A t \in StampsOf(Appended[j]) :
                /\ t.hh \in 0..23 /\ t.mm \in 0..59 /\ t.ss \in 0..59
                /\ t.zsign = "+" /\ t.zmm = 30
                /\ t.zhh = IF /\ InstantOf(t) >= DstStartUtc
                              /\ InstantOf(t) < DstEndUtc
                           THEN 4 ELSE 3

\* A canonical record of the authenticated path: a start instant, a trimmed
\* non-empty title, the description (if any) trimmed and in descFull, the
\* image (if any) a non-empty str.
SepehrCanonical(item) ==
    /\ SepehrWellFormed(item)
    /\ Strip(item.title.s) = item.title.s
    /\ item.descSummary.k = "missing"
    /\ item.descFull.k \in {"missing", "str"}
    /\ Trimmed(item.descFull) = item.descFull.s
    /\ item.imageUrl.k \in {"missing", "str"}

\* A canonical record of the radio path: a trimmed non-empty title, a time
\* of day, a description and an image that are strs.
RadioCanonical(item) ==
    /\ RadioWellFormed(item)
    /\ Strip(item.title.s) = item.title.s
    /\ item.description.k = "str"
    /\ item.image.k = "str"

AllCanonical ==
    \A i \in 1..Len(call.input) :
        IF call.fn = "sepehr_programmes_to_xmltv"
        THEN SepehrCanonical(call.input[i])
        ELSE RadioCanonical(call.input[i])

\* The millisecond timestamp read back from a formatted datetime.
ReadBackMs(t) == PyMs(InstantOf(t), 0)

\* Title, description and image read back from element j are those of
\* record j.
TextsReadBack(j) ==
    LET el == Appended[j]
        item == call.input[j]
        icons == ChildrenTagged(el, "icon")
    IN /\ ChildTexts(el, "title") = <<item.title.s>>
       /\ ChildTexts(el, "desc")
             = TextOf(IF call.fn = "sepehr_programmes_to_xmltv"
                      THEN item.descFull ELSE item.description)
       /\ [k \in 1..Len(icons) |-> icons[k].attrib.src] = ItemImage(item)

\* The stop read back from element j is the resolved stop of record j: on
\* the authenticated path start + duration for a positive duration; on the
\* radio path that, else the start of the next record if it is later.
StopReadBack(j) ==
    LET el == Appended[j]
        item == call.input[j]
    IN IF call.fn = "sepehr_programmes_to_xmltv"
       THEN /\ HasStop(el) <=> HasPositiveDuration(item)
            /\ HasStop(el) =>
                  InstantOf(el.attrib.stop)
                     = item.start.hi + IntVal(item.duration) * 60
       ELSE LET later == /\ j < Len(call.input)
                         /\ RadioStartMinutes(call.input[j + 1])
                               > RadioStartMinutes(item)
                resolved ==
                    IF HasPositiveDuration(item)
                    THEN <<RadioStartMinutes(item) + IntVal(item.duration)>>
                    ELSE IF later
                    THEN <<RadioStartMinutes(call.input[j + 1])>>
                    ELSE <<>>
            IN /\ HasStop(el) <=> resolved # <<>>
               /\ HasStop(el) =>
                     WallMinutesOf(el.attrib.stop) = resolved[1]

\* The start read back from element j is the start of record j, S(j) saying
\* how the start of an item of the authenticated path compares.
RoundTrip(S(_)) ==
    (EmitterReturned /\ AllCanonical) =>
        /\ ~ret.raised
        /\ Len(Appended) = Len(call.input)
        /\ \A j \in 1..Len(Appended) :
              /\ IF call.fn = "sepehr_programmes_to_xmltv"
                 THEN S(j)
                 ELSE /\ WallMinutesOf(Appended[j].attrib.start)
                            = RadioStartMinutes(call.input[j])
                      /\ Appended[j].attrib.start.ss = 0
              /\ StopReadBack(j)
              /\ TextsReadBack(j)

StartExact(j) == ReadBackMs(Appended[j].attrib.start) = call.input[j].start

StartToTheSecond(j) ==
    InstantOf(Appended[j].attrib.start) = call.input[j].start.hi

(***************************************************************************)
(* C17, as stated: emitting a list of canonical records with either        *)
(* emitter and reading back each entry's start, stop, title, desc and icon *)
(* recovers exactly the record's start instant, a millisecond start that   *)
(* is not a whole second included, its resolved stop, title, description   *)
(* and image.                                                              *)
(***************************************************************************)
C17_RoundTripExact == RoundTrip(StartExact)

(***************************************************************************)
(* C17, amended: the same round trip, the start and stop instants being    *)
(* recovered to the whole second: the milliseconds of a start are dropped. *)
(***************************************************************************)
C17_RoundTripToTheSecond == RoundTrip(StartToTheSecond)

\* A canonical item whose start is not a whole second is emitted with a
\* stop, a description and an item after it; the start read back is the
\* second it falls in.
C17_Witness ==
    /\ SepehrReturned /\ AllCanonical
    /\ Len(Appended) = 2
    /\ call.input[1].start.lo # 0
    /\ HasStop(Appended[1])
    /\ InstantOf(Appended[1].attrib.start) = call.input[1].start.hi
    /\ ReadBackMs(Appended[1].attrib.start) # call.input[1].start

(***************************************************************************)
(* The radio pipeline: a parser, then radio_quran_to_xmltv on the list it  *)
(* returned, as main runs them.                                            *)
(***************************************************************************)
\* added = radio_quran_to_xmltv(tv, rq_programmes, rq_tvg_id, day_start) on
\* the list a parser returned; rq_programmes keeps the list.
PipeRadio ==
    /\ UNCHANGED fetchVars
    /\ pc = "returned"
    /\ ParserReturned
    /\ ~ret.raised /\ ~ret.none
    /\ \E day_start \in Dates :
          LET r == radio_quran_to_xmltv(tv, ret.value, RadioTvgId, day_start)
          IN /\ call' = [fn |-> "radio_quran_to_xmltv", tv |-> tv,
                         input |-> ret.value, tvg_id |-> RadioTvgId,
                         date |-> day_start]
             /\ tv' = r.tv
             /\ ret' = [NoRet EXCEPT !.raised = r.raised, !.count = r.count]
    /\ rq_programmes' = [k |-> "list", list |-> ret.value]
    /\ pc' = "piped"
    /\ UNCHANGED <<session, sepehr_ok, radio_ok, total_programmes, html,
                   fetched, written, exit_status>>

NextPipeline == CallHtml \/ CallJson \/ PipeRadio

SpecPipeline == InitParsers /\ [][NextPipeline]_vars

Piped == pc = "piped"

\* The records of the list with a title that is not empty.
Titled == SelectSeq(call.input, LAMBDA r : r.title.s # <<>>)

(***************************************************************************)
(* C18: for every list parse_radio_quran_html or the secondary-feed parser *)
(* returns, radio_quran_to_xmltv emits one entry per record: the count it  *)
(* returns is the length of the list, no record a parser accepts being     *)
(* dropped or rejected.                                                    *)
(***************************************************************************)
C18_PipelineKeepsEveryRecord ==
    Piped =>
        /\ ~ret.raised
        /\ ret.count = Len(call.input)
        /\ Len(tv) = Len(call.input)

\* The run that refutes it: the list a parser returned holds a record with
\* a title and the time 25:00, and radio_quran_to_xmltv raises on it.
C18_Witness ==
    /\ Piped /\ ret.raised
    /\ tv = <<>>
    /\ \E i \in 1..Len(call.input) :
          /\ call.input[i].title.s # <<>>
          /\ call.input[i].time = PyStr(<<"2", "5", ":", "0", "0">>)

\* A second run that refutes it: the HTML parser returned a record with an
\* empty title, which radio_quran_to_xmltv drops.
C18_EmptyTitleDropped ==
    /\ Piped /\ ~ret.raised
    /\ ret.count < Len(call.input)
    /\ \E i \in 1..Len(call.input) : call.input[i].title.s = <<>>

\* What the code keeps: a call that returns has emitted the records with a
\* title, and each of them has a time of day; it raises if and only if a
\* record with a title has an hour or a minute out of range.
C18_CodeCountsTitled ==
    Piped =>
        /\ ~ret.raised =>
              /\ ret.count = Len(Titled)
              /\ Len(tv) = Len(Titled)
        /\ ret.raised <=>
              \E i \in 1..Len(Titled) : ~RadioWellFormed(Titled[i])

(***************************************************************************)
(* _cffi_fetch                                                             *)
(*                                                                         *)
(* One action per attempt: the request is the call to the outside. What an *)
(* attempt meets is drawn: a response with a text (possibly empty), or a   *)
(* failure, which is an exception of the request or of raise_for_status.   *)
(***************************************************************************)
FetchUrls == {"https://radioquran.ir/ChannelConductor/",
              "https://radioquran.ir/jsonfeeders/epg/"}

FetchOutcomes ==
    {[ok |-> TRUE, text |-> <<"<html>">>],
     [ok |-> TRUE, text |-> <<>>],
     [ok |-> FALSE, text |-> <<"timeout">>],
     [ok |-> FALSE, text |-> <<"connection refused">>],
     [ok |-> FALSE, text |-> <<"HTTP 503">>]}

\* for attempt in range(1, max_retries + 1), with one attempt more.
InRange_OneMore(n, max_retries) == n \in 1..(max_retries + 1)

\* for attempt in range(1, max_retries + 1): whether the loop runs attempt n.
InRange(n, max_retries) == n \in 1..max_retries

InitFetch ==
    /\ pc = "fetching"
    /\ tv = <<>>
    /\ \E url \in FetchUrls, max_retries \in 0..MaxRetries :
          call = [fn |-> "_cffi_fetch", url |-> url,
                  max_retries |-> max_retries]
    /\ ret = NoRet
    /\ MainIdle

\* One turn of the loop: the request, then return resp.text, or the except
\* clause and, after the last turn, return None.
CffiAttempt ==
    /\ pc = "fetching"
    /\ call.fn = "_cffi_fetch"
    /\ InRange(attempt + 1, call.max_retries)
    /\ attempt' = attempt + 1
    /\ \E outcome \in FetchOutcomes :
          /\ responses' = Append(responses, outcome)
          /\ IF outcome.ok
             THEN /\ ret' = [NoRet EXCEPT !.value = outcome.text]
                  /\ pc' = "returned"
             ELSE IF InRange(attempt + 2, call.max_retries)
             THEN /\ pc' = "fetching"
                  /\ UNCHANGED ret
             ELSE /\ ret' = [NoRet EXCEPT !.none = TRUE]
                  /\ pc' = "returned"
    /\ UNCHANGED <<tv, call, mainVars>>

\* The range is empty (max_retries < 1): the loop runs no turn, return None.
CffiNoAttempt ==
    /\ pc = "fetching"
    /\ call.fn = "_cffi_fetch"
    /\ attempt = 0
    /\ ~InRange(1, call.max_retries)
    /\ ret' = [NoRet EXCEPT !.none = TRUE]
    /\ pc' = "returned"
    /\ UNCHANGED <<tv, call, mainVars, fetchVars>>

NextFetch == CffiAttempt \/ CffiNoAttempt

SpecFetch == InitFetch /\ [][NextFetch]_vars

FetchReturned == pc = "returned" /\ call.fn = "_cffi_fetch"

AllFailed == \A i \in 1..Len(responses) : ~responses[i].ok

(***************************************************************************)
(* C19: _cffi_fetch always terminates after at most max_retries attempts:  *)
(* it returns the text of the first successful attempt and makes no        *)
(* attempt after a success, retries after each failed attempt while        *)
(* attempts remain, and returns None, without raising, if and only if all  *)
(* max_retries attempts failed.                                            *)
(***************************************************************************)
C19_BoundedRetries ==
    /\ attempt = Len(responses)
    /\ attempt <= call.max_retries
    /\ pc = "fetching" =>
          /\ AllFailed
          /\ attempt < call.max_retries \/ attempt = 0
          /\ ENABLED NextFetch
    /\ FetchReturned =>
          /\ ~ret.raised
          /\ \A i \in 1..(Len(responses) - 1) : ~responses[i].ok
          /\ ret.none <=> (AllFailed /\ Len(responses) = call.max_retries)
          /\ ~ret.none =>
                /\ responses[Len(responses)].ok
                /\ ret.value = responses[Len(responses)].text
          /\ ~ENABLED NextFetch

\* Two attempts fail, the third and last one allowed succeeds, and its text
\* is returned.
C19_Witness ==
    /\ FetchReturned
    /\ call.max_retries = 3
    /\ Len(responses) = 3
    /\ ~responses[1].ok /\ ~responses[2].ok /\ responses[3].ok
    /\ ~ret.none
    /\ ret.value = <<"<html>">>

(***************************************************************************)
(* C20: every programme element appended by either emitter that carries a  *)
(* stop attribute has a stop that denotes an instant strictly later than   *)
(* its start (no zero-length and no backwards interval), for every input   *)
(* list, with records out of order, at the same time or with a negative    *)
(* duration.                                                               *)
(***************************************************************************)
C20_StopAfterStart ==
    EmitterReturned =>
        \A j \in 1..Len(Appended) :
            HasStop(Appended[j]) =>
                InstantOf(Appended[j].attrib.stop)
                    > InstantOf(Appended[j].attrib.start)

\* A radio list of three: 10:30 with a negative duration, then 10:00 (out
\* of order) with duration 0, then 10:00 again with a positive duration.
\* The first two elements have no stop, the third stops after its start.
C20_Witness ==
    /\ RadioReturned /\ ~ret.raised
    /\ Len(call.input) = 3 /\ Len(Appended) = 3
    /\ call.input[1].duration.k = "int" /\ call.input[1].duration.hi < 0
    /\ RadioStartMinutes(call.input[2]) < RadioStartMinutes(call.input[1])
    /\ RadioStartMinutes(call.input[3]) = RadioStartMinutes(call.input[2])
    /\ ~HasStop(Appended[1]) /\ ~HasStop(Appended[2])
    /\ HasStop(Appended[3])
    /\ InstantOf(Appended[3].attrib.stop)
          > InstantOf(Appended[3].attrib.start)

(***************************************************************************)
(* main: what total_programmes counts                                      *)
(***************************************************************************)
\* The programme elements among the children of the root.
ProgrammesIn(tree) == SelectSeq(tree, LAMBDA el : el.tag = "programme")

\* Those of one channel.
ProgrammesOf(tree, tvg_id) ==
    SelectSeq(tree, LAMBDA el : el.tag = "programme"
                                /\ el.attrib.channel = tvg_id)

\* main stands at "if total_programmes == 0".
AtDecision == pc = "write"

(***************************************************************************)
(* C21: at the point where main decides between writing the file and       *)
(* exiting with failure, total_programmes equals the number of programme   *)
(* elements in the tree, for every outcome of the sources, the one where   *)
(* sepehr_programmes_to_xmltv raises part-way through the item list and    *)
(* main catches the exception included.                                    *)
(***************************************************************************)
C21_TotalCountsTree ==
    AtDecision => total_programmes = Len(ProgrammesIn(tv))

\* The run that refutes it: the conversion of the Sepehr list raised after
\* it had appended an element, main caught the exception, the radio sources
\* gave nothing, and main decides on a total of 0 with a programme in the
\* tree.
C21_Witness ==
    /\ AtDecision
    /\ sepehr_ok
    /\ total_programmes = 0
    /\ Len(ProgrammesIn(tv)) = 1
    /\ Len(ProgrammesOf(tv, SepehrTvgId)) = 1

\* What the code keeps: the total counts the elements of the conversions
\* that returned. The radio elements are always counted; the Sepehr ones
\* are counted all or, when the conversion raised, not at all.
C21_CodeCountsReturnedCalls ==
    AtDecision =>
        /\ Len(ProgrammesIn(tv))
              = Len(ProgrammesOf(tv, SepehrTvgId))
                + Len(ProgrammesOf(tv, RadioTvgId))
        /\ \/ total_programmes = Len(ProgrammesIn(tv))
           \/ total_programmes = Len(ProgrammesOf(tv, RadioTvgId))

\* A run in which both conversions returned and both are counted.
C21_BothCounted ==
    /\ AtDecision
    /\ Len(ProgrammesOf(tv, SepehrTvgId)) > 0
    /\ Len(ProgrammesOf(tv, RadioTvgId)) > 0
    /\ total_programmes = Len(ProgrammesIn(tv))

(***************************************************************************)
(* main: channel definitions and the programmes that refer to them         *)
(***************************************************************************)
\* The positions of the channel elements with the given id.
ChannelsWithId(tree, tvg_id) ==
    {i \in 1..Len(tree) :
        tree[i].tag = "channel" /\ tree[i].attrib.id = tvg_id}

\* main has passed the registration of the Radio Quran channel.
PastRadioRegistration == pc \in {"fallback", "convert", "write", "exited"}

(***************************************************************************)
(* C22: in the tree main serialises, the channel attribute of every        *)
(* programme element equals the id of a channel element of the same tree,  *)
(* and each channel id is defined at most once; the Sepehr channel         *)
(* definition is registered only when the token check succeeded; the Radio *)
(* Quran channel definition is registered in every run.                    *)
(***************************************************************************)
C22_ReferentialIntegrity ==
    /\ (AtDecision \/ written) =>
          /\ \A i \in 1..Len(tv) :
                tv[i].tag = "programme" =>
                    ChannelsWithId(tv, tv[i].attrib.channel) # {}
          /\ \A i \in 1..Len(tv) :
                tv[i].tag = "channel" =>
                    ChannelsWithId(tv, tv[i].attrib.id) = {i}
    /\ ChannelsWithId(tv, SepehrTvgId) # {} => (session /\ sepehr_ok)
    /\ pc = "radio" => ENABLED FetchHtml
    /\ PastRadioRegistration => ChannelsWithId(tv, RadioTvgId) # {}

\* A file written from a tree with both channel definitions and programmes
\* of both channels.
C22_Witness ==
    /\ written
    /\ sepehr_ok
    /\ Len(ProgrammesOf(tv, SepehrTvgId)) > 0
    /\ Len(ProgrammesOf(tv, RadioTvgId)) > 0
    /\ Cardinality(ChannelsWithId(tv, SepehrTvgId)) = 1
    /\ Cardinality(ChannelsWithId(tv, RadioTvgId)) = 1

====
